---------------------------- MODULE Spec2Model ----------------------------
(***************************************************************************)
(* A model of ttbot.TelegramBot (src/ttbot/__init__.py): the poll loop of  *)
(* start_update / get_update, the batch dispatch of process_updates,       *)
(* process_messages and process_messages_in_order, and the resolution of   *)
(* one message by process_message.                                         *)
(*                                                                         *)
(* Twisted runs every callback to completion on one reactor thread, so one *)
(* action is one reactor turn: everything the code does between two        *)
(* suspension points (a Deferred that has not fired, a callLater).         *)
(* Application handlers are inputs: each invocation either returns a       *)
(* value, raises, or returns a Deferred that fires in a later turn.        *)
(***************************************************************************)
EXTENDS Integers, Sequences, FiniteSets, TLC

VARIABLES
  \* ---- fields of TelegramBot
  last_update_id,          \* the cursor
  retry_update,            \* the retry delay
  running,
  message_handlers,        \* list of func_dict
  message_prehandlers,     \* list of prehandler names
  message_subscribers,     \* LRUCache, least recently used first
  message_next_handlers,   \* LRUCache, least recently used first
  handlers,                \* the four kind handlers (None when unset)
  \* ---- the update_bot closure and the reactor
  pc,                      \* where the poll loop is
  default_delay,           \* start_update's argument, captured by update_bot
  delay,                   \* the delay handed to the last reactor.callLater
  reactor,                 \* the reactor is running
  others,                  \* the update_bot closures of further start_update calls
  \* ---- the upstream (the getUpdates endpoint)
  queue,                   \* the updates the server has not seen confirmed
  supply,                  \* how many updates the upstream may still create
  faults,                  \* how many get_update calls may still fail
  \* ---- the batch in flight
  batch,                   \* the updates of the last getUpdates answer
  inv,                     \* per update: what became of its handler invocation
  route,                   \* per update: the handler process_message resolved
  calls,                   \* batch positions in the order process_message ran
  prelog,                  \* <<position, prehandler>> in notification order
  pipes,                   \* per chat id: the state of process_messages_in_order
  gb,                      \* the value left in the exhausted groupby (0: none)
  \* ---- what the last get_update did (observation only)
  last_poll,               \* "none", "ok", "transport_error", "handler_raised"
  offset,                  \* the offset of the last getUpdates request
  streak,                  \* consecutive transport failures
  base,                    \* the retry delay when the streak began
  recovered                \* the streak that the last successful poll ended

vars == <<last_update_id, retry_update, running, message_handlers,
          message_prehandlers, message_subscribers, message_next_handlers,
          handlers, pc, default_delay, delay, queue, supply, faults, batch,
          inv, route, calls, prelog, pipes, gb, last_poll, offset,
          streak, base, recovered, reactor, others>>

bot_vars == <<message_handlers, message_prehandlers, handlers>>
reactor_vars == <<reactor, others>>
loop_vars == <<last_update_id, retry_update, running, pc, default_delay, delay>>
upstream_vars == <<queue, supply, faults>>
batch_vars == <<batch, inv, route, calls, prelog, pipes, gb>>
obs_vars == <<last_poll, offset, streak, base, recovered>>

-----------------------------------------------------------------------------
(* Bounds of the model *)

MaxBatch == 3        \* updates in one getUpdates answer, and in one run
MaxFaults == 1       \* failing poll calls in one run of the dispatch model
MaxFailures == 9     \* failing poll calls in one run of the backoff model
MaxDirect == 2       \* messages in one direct process_messages call
MaxPolled == 1       \* updates in one run of the backoff model
MaxHandlers == 2     \* registered message handlers in the matching model
MaxMatched == 2      \* messages in one call of the matching model
MaxKinds == 2        \* updates in one run of the model of the update kinds
MaxLoops == 3        \* update_bot closures scheduled or in flight at one time
MaxGroups == 4       \* updates in one run of the model of the groups, the longest run

(* Program constants *)

RetryStep == 3                    \* self.retry_update + 3
RetryCeiling == 20                \* min(..., 20)
InitialCursor == -1               \* last_update_id without skip_offset
SkipCursor == -2                  \* last_update_id with skip_offset
EmptyMax == -1                    \* max_update_id before the loop of get_update
InitialRetry == 0                 \* self.retry_update = 0
SubscribersMaxsize == 10000       \* LRUCache(maxsize=10000)
NextHandlersMaxsize == 1000       \* LRUCache(maxsize=1000)

None == "None"

Min(a, b) == IF a < b THEN a ELSE b

Range(s) == {s[i] : i \in 1..Len(s)}

RECURSIVE SeqsUpTo(_, _)
\* every sequence over S of length at most n
SeqsUpTo(S, n) ==
  IF n = 0 THEN {<<>>}
  ELSE LET shorter == SeqsUpTo(S, n - 1)
       IN shorter \cup {Append(s, x) : s \in {t \in shorter : Len(t) = n - 1}, x \in S}

-----------------------------------------------------------------------------
(* Texts are sequences of one-character strings. *)

\* A text is a sequence of characters. A character outside printable ASCII is
\* written by its code point, "\\u00a0", and the vertical tab "\\v". Message
\* texts are unicode objects (json.loads), and the code is CPython 2.7's
\* (basestring, unicode, iteritems), whose character tables are those of
\* Unicode 5.2.0; the texts of the model are over the Basic Multilingual Plane.

\* the characters unicode.split() cuts at: space, tab, newline, carriage
\* return, form feed, vertical tab, the separators U+001C to U+001F, and the
\* other characters Unicode classes as space or as a line or paragraph break
Whitespace ==
  {" ", "\t", "\n", "\r", "\f", "\\v",
   "\\u001c", "\\u001d", "\\u001e", "\\u001f", "\\u0085", "\\u00a0",
   "\\u1680", "\\u180e", "\\u2000", "\\u2001", "\\u2002", "\\u2003",
   "\\u2004", "\\u2005", "\\u2006", "\\u2007", "\\u2008", "\\u2009",
   "\\u200a", "\\u2028", "\\u2029", "\\u202f", "\\u205f", "\\u3000"}

\* every character unicode.lower() changes, with what it becomes (the simple
\* lower-case mapping of the character)
LowerPairs ==
  <<
    <<"A", "a">>, <<"B", "b">>, <<"C", "c">>, <<"D", "d">>,
    <<"E", "e">>, <<"F", "f">>, <<"G", "g">>, <<"H", "h">>,
    <<"I", "i">>, <<"J", "j">>, <<"K", "k">>, <<"L", "l">>,
    <<"M", "m">>, <<"N", "n">>, <<"O", "o">>, <<"P", "p">>,
    <<"Q", "q">>, <<"R", "r">>, <<"S", "s">>, <<"T", "t">>,
    <<"U", "u">>, <<"V", "v">>, <<"W", "w">>, <<"X", "x">>,
    <<"Y", "y">>, <<"Z", "z">>, <<"\\u00c0", "\\u00e0">>, <<"\\u00c1", "\\u00e1">>,
    <<"\\u00c2", "\\u00e2">>, <<"\\u00c3", "\\u00e3">>, <<"\\u00c4", "\\u00e4">>, <<"\\u00c5", "\\u00e5">>,
    <<"\\u00c6", "\\u00e6">>, <<"\\u00c7", "\\u00e7">>, <<"\\u00c8", "\\u00e8">>, <<"\\u00c9", "\\u00e9">>,
    <<"\\u00ca", "\\u00ea">>, <<"\\u00cb", "\\u00eb">>, <<"\\u00cc", "\\u00ec">>, <<"\\u00cd", "\\u00ed">>,
    <<"\\u00ce", "\\u00ee">>, <<"\\u00cf", "\\u00ef">>, <<"\\u00d0", "\\u00f0">>, <<"\\u00d1", "\\u00f1">>,
    <<"\\u00d2", "\\u00f2">>, <<"\\u00d3", "\\u00f3">>, <<"\\u00d4", "\\u00f4">>, <<"\\u00d5", "\\u00f5">>,
    <<"\\u00d6", "\\u00f6">>, <<"\\u00d8", "\\u00f8">>, <<"\\u00d9", "\\u00f9">>, <<"\\u00da", "\\u00fa">>,
    <<"\\u00db", "\\u00fb">>, <<"\\u00dc", "\\u00fc">>, <<"\\u00dd", "\\u00fd">>, <<"\\u00de", "\\u00fe">>,
    <<"\\u0100", "\\u0101">>, <<"\\u0102", "\\u0103">>, <<"\\u0104", "\\u0105">>, <<"\\u0106", "\\u0107">>,
    <<"\\u0108", "\\u0109">>, <<"\\u010a", "\\u010b">>, <<"\\u010c", "\\u010d">>, <<"\\u010e", "\\u010f">>,
    <<"\\u0110", "\\u0111">>, <<"\\u0112", "\\u0113">>, <<"\\u0114", "\\u0115">>, <<"\\u0116", "\\u0117">>,
    <<"\\u0118", "\\u0119">>, <<"\\u011a", "\\u011b">>, <<"\\u011c", "\\u011d">>, <<"\\u011e", "\\u011f">>,
    <<"\\u0120", "\\u0121">>, <<"\\u0122", "\\u0123">>, <<"\\u0124", "\\u0125">>, <<"\\u0126", "\\u0127">>,
    <<"\\u0128", "\\u0129">>, <<"\\u012a", "\\u012b">>, <<"\\u012c", "\\u012d">>, <<"\\u012e", "\\u012f">>,
    <<"\\u0130", "i">>, <<"\\u0132", "\\u0133">>, <<"\\u0134", "\\u0135">>, <<"\\u0136", "\\u0137">>,
    <<"\\u0139", "\\u013a">>, <<"\\u013b", "\\u013c">>, <<"\\u013d", "\\u013e">>, <<"\\u013f", "\\u0140">>,
    <<"\\u0141", "\\u0142">>, <<"\\u0143", "\\u0144">>, <<"\\u0145", "\\u0146">>, <<"\\u0147", "\\u0148">>,
    <<"\\u014a", "\\u014b">>, <<"\\u014c", "\\u014d">>, <<"\\u014e", "\\u014f">>, <<"\\u0150", "\\u0151">>,
    <<"\\u0152", "\\u0153">>, <<"\\u0154", "\\u0155">>, <<"\\u0156", "\\u0157">>, <<"\\u0158", "\\u0159">>,
    <<"\\u015a", "\\u015b">>, <<"\\u015c", "\\u015d">>, <<"\\u015e", "\\u015f">>, <<"\\u0160", "\\u0161">>,
    <<"\\u0162", "\\u0163">>, <<"\\u0164", "\\u0165">>, <<"\\u0166", "\\u0167">>, <<"\\u0168", "\\u0169">>,
    <<"\\u016a", "\\u016b">>, <<"\\u016c", "\\u016d">>, <<"\\u016e", "\\u016f">>, <<"\\u0170", "\\u0171">>,
    <<"\\u0172", "\\u0173">>, <<"\\u0174", "\\u0175">>, <<"\\u0176", "\\u0177">>, <<"\\u0178", "\\u00ff">>,
    <<"\\u0179", "\\u017a">>, <<"\\u017b", "\\u017c">>, <<"\\u017d", "\\u017e">>, <<"\\u0181", "\\u0253">>,
    <<"\\u0182", "\\u0183">>, <<"\\u0184", "\\u0185">>, <<"\\u0186", "\\u0254">>, <<"\\u0187", "\\u0188">>,
    <<"\\u0189", "\\u0256">>, <<"\\u018a", "\\u0257">>, <<"\\u018b", "\\u018c">>, <<"\\u018e", "\\u01dd">>,
    <<"\\u018f", "\\u0259">>, <<"\\u0190", "\\u025b">>, <<"\\u0191", "\\u0192">>, <<"\\u0193", "\\u0260">>,
    <<"\\u0194", "\\u0263">>, <<"\\u0196", "\\u0269">>, <<"\\u0197", "\\u0268">>, <<"\\u0198", "\\u0199">>,
    <<"\\u019c", "\\u026f">>, <<"\\u019d", "\\u0272">>, <<"\\u019f", "\\u0275">>, <<"\\u01a0", "\\u01a1">>,
    <<"\\u01a2", "\\u01a3">>, <<"\\u01a4", "\\u01a5">>, <<"\\u01a6", "\\u0280">>, <<"\\u01a7", "\\u01a8">>,
    <<"\\u01a9", "\\u0283">>, <<"\\u01ac", "\\u01ad">>, <<"\\u01ae", "\\u0288">>, <<"\\u01af", "\\u01b0">>,
    <<"\\u01b1", "\\u028a">>, <<"\\u01b2", "\\u028b">>, <<"\\u01b3", "\\u01b4">>, <<"\\u01b5", "\\u01b6">>,
    <<"\\u01b7", "\\u0292">>, <<"\\u01b8", "\\u01b9">>, <<"\\u01bc", "\\u01bd">>, <<"\\u01c4", "\\u01c6">>,
    <<"\\u01c5", "\\u01c6">>, <<"\\u01c7", "\\u01c9">>, <<"\\u01c8", "\\u01c9">>, <<"\\u01ca", "\\u01cc">>,
    <<"\\u01cb", "\\u01cc">>, <<"\\u01cd", "\\u01ce">>, <<"\\u01cf", "\\u01d0">>, <<"\\u01d1", "\\u01d2">>,
    <<"\\u01d3", "\\u01d4">>, <<"\\u01d5", "\\u01d6">>, <<"\\u01d7", "\\u01d8">>, <<"\\u01d9", "\\u01da">>,
    <<"\\u01db", "\\u01dc">>, <<"\\u01de", "\\u01df">>, <<"\\u01e0", "\\u01e1">>, <<"\\u01e2", "\\u01e3">>,
    <<"\\u01e4", "\\u01e5">>, <<"\\u01e6", "\\u01e7">>, <<"\\u01e8", "\\u01e9">>, <<"\\u01ea", "\\u01eb">>,
    <<"\\u01ec", "\\u01ed">>, <<"\\u01ee", "\\u01ef">>, <<"\\u01f1", "\\u01f3">>, <<"\\u01f2", "\\u01f3">>,
    <<"\\u01f4", "\\u01f5">>, <<"\\u01f6", "\\u0195">>, <<"\\u01f7", "\\u01bf">>, <<"\\u01f8", "\\u01f9">>,
    <<"\\u01fa", "\\u01fb">>, <<"\\u01fc", "\\u01fd">>, <<"\\u01fe", "\\u01ff">>, <<"\\u0200", "\\u0201">>,
    <<"\\u0202", "\\u0203">>, <<"\\u0204", "\\u0205">>, <<"\\u0206", "\\u0207">>, <<"\\u0208", "\\u0209">>,
    <<"\\u020a", "\\u020b">>, <<"\\u020c", "\\u020d">>, <<"\\u020e", "\\u020f">>, <<"\\u0210", "\\u0211">>,
    <<"\\u0212", "\\u0213">>, <<"\\u0214", "\\u0215">>, <<"\\u0216", "\\u0217">>, <<"\\u0218", "\\u0219">>,
    <<"\\u021a", "\\u021b">>, <<"\\u021c", "\\u021d">>, <<"\\u021e", "\\u021f">>, <<"\\u0220", "\\u019e">>,
    <<"\\u0222", "\\u0223">>, <<"\\u0224", "\\u0225">>, <<"\\u0226", "\\u0227">>, <<"\\u0228", "\\u0229">>,
    <<"\\u022a", "\\u022b">>, <<"\\u022c", "\\u022d">>, <<"\\u022e", "\\u022f">>, <<"\\u0230", "\\u0231">>,
    <<"\\u0232", "\\u0233">>, <<"\\u023a", "\\u2c65">>, <<"\\u023b", "\\u023c">>, <<"\\u023d", "\\u019a">>,
    <<"\\u023e", "\\u2c66">>, <<"\\u0241", "\\u0242">>, <<"\\u0243", "\\u0180">>, <<"\\u0244", "\\u0289">>,
    <<"\\u0245", "\\u028c">>, <<"\\u0246", "\\u0247">>, <<"\\u0248", "\\u0249">>, <<"\\u024a", "\\u024b">>,
    <<"\\u024c", "\\u024d">>, <<"\\u024e", "\\u024f">>, <<"\\u0370", "\\u0371">>, <<"\\u0372", "\\u0373">>,
    <<"\\u0376", "\\u0377">>, <<"\\u0386", "\\u03ac">>, <<"\\u0388", "\\u03ad">>, <<"\\u0389", "\\u03ae">>,
    <<"\\u038a", "\\u03af">>, <<"\\u038c", "\\u03cc">>, <<"\\u038e", "\\u03cd">>, <<"\\u038f", "\\u03ce">>,
    <<"\\u0391", "\\u03b1">>, <<"\\u0392", "\\u03b2">>, <<"\\u0393", "\\u03b3">>, <<"\\u0394", "\\u03b4">>,
    <<"\\u0395", "\\u03b5">>, <<"\\u0396", "\\u03b6">>, <<"\\u0397", "\\u03b7">>, <<"\\u0398", "\\u03b8">>,
    <<"\\u0399", "\\u03b9">>, <<"\\u039a", "\\u03ba">>, <<"\\u039b", "\\u03bb">>, <<"\\u039c", "\\u03bc">>,
    <<"\\u039d", "\\u03bd">>, <<"\\u039e", "\\u03be">>, <<"\\u039f", "\\u03bf">>, <<"\\u03a0", "\\u03c0">>,
    <<"\\u03a1", "\\u03c1">>, <<"\\u03a3", "\\u03c3">>, <<"\\u03a4", "\\u03c4">>, <<"\\u03a5", "\\u03c5">>,
    <<"\\u03a6", "\\u03c6">>, <<"\\u03a7", "\\u03c7">>, <<"\\u03a8", "\\u03c8">>, <<"\\u03a9", "\\u03c9">>,
    <<"\\u03aa", "\\u03ca">>, <<"\\u03ab", "\\u03cb">>, <<"\\u03cf", "\\u03d7">>, <<"\\u03d8", "\\u03d9">>,
    <<"\\u03da", "\\u03db">>, <<"\\u03dc", "\\u03dd">>, <<"\\u03de", "\\u03df">>, <<"\\u03e0", "\\u03e1">>,
    <<"\\u03e2", "\\u03e3">>, <<"\\u03e4", "\\u03e5">>, <<"\\u03e6", "\\u03e7">>, <<"\\u03e8", "\\u03e9">>,
    <<"\\u03ea", "\\u03eb">>, <<"\\u03ec", "\\u03ed">>, <<"\\u03ee", "\\u03ef">>, <<"\\u03f4", "\\u03b8">>,
    <<"\\u03f7", "\\u03f8">>, <<"\\u03f9", "\\u03f2">>, <<"\\u03fa", "\\u03fb">>, <<"\\u03fd", "\\u037b">>,
    <<"\\u03fe", "\\u037c">>, <<"\\u03ff", "\\u037d">>, <<"\\u0400", "\\u0450">>, <<"\\u0401", "\\u0451">>,
    <<"\\u0402", "\\u0452">>, <<"\\u0403", "\\u0453">>, <<"\\u0404", "\\u0454">>, <<"\\u0405", "\\u0455">>,
    <<"\\u0406", "\\u0456">>, <<"\\u0407", "\\u0457">>, <<"\\u0408", "\\u0458">>, <<"\\u0409", "\\u0459">>,
    <<"\\u040a", "\\u045a">>, <<"\\u040b", "\\u045b">>, <<"\\u040c", "\\u045c">>, <<"\\u040d", "\\u045d">>,
    <<"\\u040e", "\\u045e">>, <<"\\u040f", "\\u045f">>, <<"\\u0410", "\\u0430">>, <<"\\u0411", "\\u0431">>,
    <<"\\u0412", "\\u0432">>, <<"\\u0413", "\\u0433">>, <<"\\u0414", "\\u0434">>, <<"\\u0415", "\\u0435">>,
    <<"\\u0416", "\\u0436">>, <<"\\u0417", "\\u0437">>, <<"\\u0418", "\\u0438">>, <<"\\u0419", "\\u0439">>,
    <<"\\u041a", "\\u043a">>, <<"\\u041b", "\\u043b">>, <<"\\u041c", "\\u043c">>, <<"\\u041d", "\\u043d">>,
    <<"\\u041e", "\\u043e">>, <<"\\u041f", "\\u043f">>, <<"\\u0420", "\\u0440">>, <<"\\u0421", "\\u0441">>,
    <<"\\u0422", "\\u0442">>, <<"\\u0423", "\\u0443">>, <<"\\u0424", "\\u0444">>, <<"\\u0425", "\\u0445">>,
    <<"\\u0426", "\\u0446">>, <<"\\u0427", "\\u0447">>, <<"\\u0428", "\\u0448">>, <<"\\u0429", "\\u0449">>,
    <<"\\u042a", "\\u044a">>, <<"\\u042b", "\\u044b">>, <<"\\u042c", "\\u044c">>, <<"\\u042d", "\\u044d">>,
    <<"\\u042e", "\\u044e">>, <<"\\u042f", "\\u044f">>, <<"\\u0460", "\\u0461">>, <<"\\u0462", "\\u0463">>,
    <<"\\u0464", "\\u0465">>, <<"\\u0466", "\\u0467">>, <<"\\u0468", "\\u0469">>, <<"\\u046a", "\\u046b">>,
    <<"\\u046c", "\\u046d">>, <<"\\u046e", "\\u046f">>, <<"\\u0470", "\\u0471">>, <<"\\u0472", "\\u0473">>,
    <<"\\u0474", "\\u0475">>, <<"\\u0476", "\\u0477">>, <<"\\u0478", "\\u0479">>, <<"\\u047a", "\\u047b">>,
    <<"\\u047c", "\\u047d">>, <<"\\u047e", "\\u047f">>, <<"\\u0480", "\\u0481">>, <<"\\u048a", "\\u048b">>,
    <<"\\u048c", "\\u048d">>, <<"\\u048e", "\\u048f">>, <<"\\u0490", "\\u0491">>, <<"\\u0492", "\\u0493">>,
    <<"\\u0494", "\\u0495">>, <<"\\u0496", "\\u0497">>, <<"\\u0498", "\\u0499">>, <<"\\u049a", "\\u049b">>,
    <<"\\u049c", "\\u049d">>, <<"\\u049e", "\\u049f">>, <<"\\u04a0", "\\u04a1">>, <<"\\u04a2", "\\u04a3">>,
    <<"\\u04a4", "\\u04a5">>, <<"\\u04a6", "\\u04a7">>, <<"\\u04a8", "\\u04a9">>, <<"\\u04aa", "\\u04ab">>,
    <<"\\u04ac", "\\u04ad">>, <<"\\u04ae", "\\u04af">>, <<"\\u04b0", "\\u04b1">>, <<"\\u04b2", "\\u04b3">>,
    <<"\\u04b4", "\\u04b5">>, <<"\\u04b6", "\\u04b7">>, <<"\\u04b8", "\\u04b9">>, <<"\\u04ba", "\\u04bb">>,
    <<"\\u04bc", "\\u04bd">>, <<"\\u04be", "\\u04bf">>, <<"\\u04c0", "\\u04cf">>, <<"\\u04c1", "\\u04c2">>,
    <<"\\u04c3", "\\u04c4">>, <<"\\u04c5", "\\u04c6">>, <<"\\u04c7", "\\u04c8">>, <<"\\u04c9", "\\u04ca">>,
    <<"\\u04cb", "\\u04cc">>, <<"\\u04cd", "\\u04ce">>, <<"\\u04d0", "\\u04d1">>, <<"\\u04d2", "\\u04d3">>,
    <<"\\u04d4", "\\u04d5">>, <<"\\u04d6", "\\u04d7">>, <<"\\u04d8", "\\u04d9">>, <<"\\u04da", "\\u04db">>,
    <<"\\u04dc", "\\u04dd">>, <<"\\u04de", "\\u04df">>, <<"\\u04e0", "\\u04e1">>, <<"\\u04e2", "\\u04e3">>,
    <<"\\u04e4", "\\u04e5">>, <<"\\u04e6", "\\u04e7">>, <<"\\u04e8", "\\u04e9">>, <<"\\u04ea", "\\u04eb">>,
    <<"\\u04ec", "\\u04ed">>, <<"\\u04ee", "\\u04ef">>, <<"\\u04f0", "\\u04f1">>, <<"\\u04f2", "\\u04f3">>,
    <<"\\u04f4", "\\u04f5">>, <<"\\u04f6", "\\u04f7">>, <<"\\u04f8", "\\u04f9">>, <<"\\u04fa", "\\u04fb">>,
    <<"\\u04fc", "\\u04fd">>, <<"\\u04fe", "\\u04ff">>, <<"\\u0500", "\\u0501">>, <<"\\u0502", "\\u0503">>,
    <<"\\u0504", "\\u0505">>, <<"\\u0506", "\\u0507">>, <<"\\u0508", "\\u0509">>, <<"\\u050a", "\\u050b">>,
    <<"\\u050c", "\\u050d">>, <<"\\u050e", "\\u050f">>, <<"\\u0510", "\\u0511">>, <<"\\u0512", "\\u0513">>,
    <<"\\u0514", "\\u0515">>, <<"\\u0516", "\\u0517">>, <<"\\u0518", "\\u0519">>, <<"\\u051a", "\\u051b">>,
    <<"\\u051c", "\\u051d">>, <<"\\u051e", "\\u051f">>, <<"\\u0520", "\\u0521">>, <<"\\u0522", "\\u0523">>,
    <<"\\u0524", "\\u0525">>, <<"\\u0531", "\\u0561">>, <<"\\u0532", "\\u0562">>, <<"\\u0533", "\\u0563">>,
    <<"\\u0534", "\\u0564">>, <<"\\u0535", "\\u0565">>, <<"\\u0536", "\\u0566">>, <<"\\u0537", "\\u0567">>,
    <<"\\u0538", "\\u0568">>, <<"\\u0539", "\\u0569">>, <<"\\u053a", "\\u056a">>, <<"\\u053b", "\\u056b">>,
    <<"\\u053c", "\\u056c">>, <<"\\u053d", "\\u056d">>, <<"\\u053e", "\\u056e">>, <<"\\u053f", "\\u056f">>,
    <<"\\u0540", "\\u0570">>, <<"\\u0541", "\\u0571">>, <<"\\u0542", "\\u0572">>, <<"\\u0543", "\\u0573">>,
    <<"\\u0544", "\\u0574">>, <<"\\u0545", "\\u0575">>, <<"\\u0546", "\\u0576">>, <<"\\u0547", "\\u0577">>,
    <<"\\u0548", "\\u0578">>, <<"\\u0549", "\\u0579">>, <<"\\u054a", "\\u057a">>, <<"\\u054b", "\\u057b">>,
    <<"\\u054c", "\\u057c">>, <<"\\u054d", "\\u057d">>, <<"\\u054e", "\\u057e">>, <<"\\u054f", "\\u057f">>,
    <<"\\u0550", "\\u0580">>, <<"\\u0551", "\\u0581">>, <<"\\u0552", "\\u0582">>, <<"\\u0553", "\\u0583">>,
    <<"\\u0554", "\\u0584">>, <<"\\u0555", "\\u0585">>, <<"\\u0556", "\\u0586">>, <<"\\u10a0", "\\u2d00">>,
    <<"\\u10a1", "\\u2d01">>, <<"\\u10a2", "\\u2d02">>, <<"\\u10a3", "\\u2d03">>, <<"\\u10a4", "\\u2d04">>,
    <<"\\u10a5", "\\u2d05">>, <<"\\u10a6", "\\u2d06">>, <<"\\u10a7", "\\u2d07">>, <<"\\u10a8", "\\u2d08">>,
    <<"\\u10a9", "\\u2d09">>, <<"\\u10aa", "\\u2d0a">>, <<"\\u10ab", "\\u2d0b">>, <<"\\u10ac", "\\u2d0c">>,
    <<"\\u10ad", "\\u2d0d">>, <<"\\u10ae", "\\u2d0e">>, <<"\\u10af", "\\u2d0f">>, <<"\\u10b0", "\\u2d10">>,
    <<"\\u10b1", "\\u2d11">>, <<"\\u10b2", "\\u2d12">>, <<"\\u10b3", "\\u2d13">>, <<"\\u10b4", "\\u2d14">>,
    <<"\\u10b5", "\\u2d15">>, <<"\\u10b6", "\\u2d16">>, <<"\\u10b7", "\\u2d17">>, <<"\\u10b8", "\\u2d18">>,
    <<"\\u10b9", "\\u2d19">>, <<"\\u10ba", "\\u2d1a">>, <<"\\u10bb", "\\u2d1b">>, <<"\\u10bc", "\\u2d1c">>,
    <<"\\u10bd", "\\u2d1d">>, <<"\\u10be", "\\u2d1e">>, <<"\\u10bf", "\\u2d1f">>, <<"\\u10c0", "\\u2d20">>,
    <<"\\u10c1", "\\u2d21">>, <<"\\u10c2", "\\u2d22">>, <<"\\u10c3", "\\u2d23">>, <<"\\u10c4", "\\u2d24">>,
    <<"\\u10c5", "\\u2d25">>, <<"\\u1e00", "\\u1e01">>, <<"\\u1e02", "\\u1e03">>, <<"\\u1e04", "\\u1e05">>,
    <<"\\u1e06", "\\u1e07">>, <<"\\u1e08", "\\u1e09">>, <<"\\u1e0a", "\\u1e0b">>, <<"\\u1e0c", "\\u1e0d">>,
    <<"\\u1e0e", "\\u1e0f">>, <<"\\u1e10", "\\u1e11">>, <<"\\u1e12", "\\u1e13">>, <<"\\u1e14", "\\u1e15">>,
    <<"\\u1e16", "\\u1e17">>, <<"\\u1e18", "\\u1e19">>, <<"\\u1e1a", "\\u1e1b">>, <<"\\u1e1c", "\\u1e1d">>,
    <<"\\u1e1e", "\\u1e1f">>, <<"\\u1e20", "\\u1e21">>, <<"\\u1e22", "\\u1e23">>, <<"\\u1e24", "\\u1e25">>,
    <<"\\u1e26", "\\u1e27">>, <<"\\u1e28", "\\u1e29">>, <<"\\u1e2a", "\\u1e2b">>, <<"\\u1e2c", "\\u1e2d">>,
    <<"\\u1e2e", "\\u1e2f">>, <<"\\u1e30", "\\u1e31">>, <<"\\u1e32", "\\u1e33">>, <<"\\u1e34", "\\u1e35">>,
    <<"\\u1e36", "\\u1e37">>, <<"\\u1e38", "\\u1e39">>, <<"\\u1e3a", "\\u1e3b">>, <<"\\u1e3c", "\\u1e3d">>,
    <<"\\u1e3e", "\\u1e3f">>, <<"\\u1e40", "\\u1e41">>, <<"\\u1e42", "\\u1e43">>, <<"\\u1e44", "\\u1e45">>,
    <<"\\u1e46", "\\u1e47">>, <<"\\u1e48", "\\u1e49">>, <<"\\u1e4a", "\\u1e4b">>, <<"\\u1e4c", "\\u1e4d">>,
    <<"\\u1e4e", "\\u1e4f">>, <<"\\u1e50", "\\u1e51">>, <<"\\u1e52", "\\u1e53">>, <<"\\u1e54", "\\u1e55">>,
    <<"\\u1e56", "\\u1e57">>, <<"\\u1e58", "\\u1e59">>, <<"\\u1e5a", "\\u1e5b">>, <<"\\u1e5c", "\\u1e5d">>,
    <<"\\u1e5e", "\\u1e5f">>, <<"\\u1e60", "\\u1e61">>, <<"\\u1e62", "\\u1e63">>, <<"\\u1e64", "\\u1e65">>,
    <<"\\u1e66", "\\u1e67">>, <<"\\u1e68", "\\u1e69">>, <<"\\u1e6a", "\\u1e6b">>, <<"\\u1e6c", "\\u1e6d">>,
    <<"\\u1e6e", "\\u1e6f">>, <<"\\u1e70", "\\u1e71">>, <<"\\u1e72", "\\u1e73">>, <<"\\u1e74", "\\u1e75">>,
    <<"\\u1e76", "\\u1e77">>, <<"\\u1e78", "\\u1e79">>, <<"\\u1e7a", "\\u1e7b">>, <<"\\u1e7c", "\\u1e7d">>,
    <<"\\u1e7e", "\\u1e7f">>, <<"\\u1e80", "\\u1e81">>, <<"\\u1e82", "\\u1e83">>, <<"\\u1e84", "\\u1e85">>,
    <<"\\u1e86", "\\u1e87">>, <<"\\u1e88", "\\u1e89">>, <<"\\u1e8a", "\\u1e8b">>, <<"\\u1e8c", "\\u1e8d">>,
    <<"\\u1e8e", "\\u1e8f">>, <<"\\u1e90", "\\u1e91">>, <<"\\u1e92", "\\u1e93">>, <<"\\u1e94", "\\u1e95">>,
    <<"\\u1e9e", "\\u00df">>, <<"\\u1ea0", "\\u1ea1">>, <<"\\u1ea2", "\\u1ea3">>, <<"\\u1ea4", "\\u1ea5">>,
    <<"\\u1ea6", "\\u1ea7">>, <<"\\u1ea8", "\\u1ea9">>, <<"\\u1eaa", "\\u1eab">>, <<"\\u1eac", "\\u1ead">>,
    <<"\\u1eae", "\\u1eaf">>, <<"\\u1eb0", "\\u1eb1">>, <<"\\u1eb2", "\\u1eb3">>, <<"\\u1eb4", "\\u1eb5">>,
    <<"\\u1eb6", "\\u1eb7">>, <<"\\u1eb8", "\\u1eb9">>, <<"\\u1eba", "\\u1ebb">>, <<"\\u1ebc", "\\u1ebd">>,
    <<"\\u1ebe", "\\u1ebf">>, <<"\\u1ec0", "\\u1ec1">>, <<"\\u1ec2", "\\u1ec3">>, <<"\\u1ec4", "\\u1ec5">>,
    <<"\\u1ec6", "\\u1ec7">>, <<"\\u1ec8", "\\u1ec9">>, <<"\\u1eca", "\\u1ecb">>, <<"\\u1ecc", "\\u1ecd">>,
    <<"\\u1ece", "\\u1ecf">>, <<"\\u1ed0", "\\u1ed1">>, <<"\\u1ed2", "\\u1ed3">>, <<"\\u1ed4", "\\u1ed5">>,
    <<"\\u1ed6", "\\u1ed7">>, <<"\\u1ed8", "\\u1ed9">>, <<"\\u1eda", "\\u1edb">>, <<"\\u1edc", "\\u1edd">>,
    <<"\\u1ede", "\\u1edf">>, <<"\\u1ee0", "\\u1ee1">>, <<"\\u1ee2", "\\u1ee3">>, <<"\\u1ee4", "\\u1ee5">>,
    <<"\\u1ee6", "\\u1ee7">>, <<"\\u1ee8", "\\u1ee9">>, <<"\\u1eea", "\\u1eeb">>, <<"\\u1eec", "\\u1eed">>,
    <<"\\u1eee", "\\u1eef">>, <<"\\u1ef0", "\\u1ef1">>, <<"\\u1ef2", "\\u1ef3">>, <<"\\u1ef4", "\\u1ef5">>,
    <<"\\u1ef6", "\\u1ef7">>, <<"\\u1ef8", "\\u1ef9">>, <<"\\u1efa", "\\u1efb">>, <<"\\u1efc", "\\u1efd">>,
    <<"\\u1efe", "\\u1eff">>, <<"\\u1f08", "\\u1f00">>, <<"\\u1f09", "\\u1f01">>, <<"\\u1f0a", "\\u1f02">>,
    <<"\\u1f0b", "\\u1f03">>, <<"\\u1f0c", "\\u1f04">>, <<"\\u1f0d", "\\u1f05">>, <<"\\u1f0e", "\\u1f06">>,
    <<"\\u1f0f", "\\u1f07">>, <<"\\u1f18", "\\u1f10">>, <<"\\u1f19", "\\u1f11">>, <<"\\u1f1a", "\\u1f12">>,
    <<"\\u1f1b", "\\u1f13">>, <<"\\u1f1c", "\\u1f14">>, <<"\\u1f1d", "\\u1f15">>, <<"\\u1f28", "\\u1f20">>,
    <<"\\u1f29", "\\u1f21">>, <<"\\u1f2a", "\\u1f22">>, <<"\\u1f2b", "\\u1f23">>, <<"\\u1f2c", "\\u1f24">>,
    <<"\\u1f2d", "\\u1f25">>, <<"\\u1f2e", "\\u1f26">>, <<"\\u1f2f", "\\u1f27">>, <<"\\u1f38", "\\u1f30">>,
    <<"\\u1f39", "\\u1f31">>, <<"\\u1f3a", "\\u1f32">>, <<"\\u1f3b", "\\u1f33">>, <<"\\u1f3c", "\\u1f34">>,
    <<"\\u1f3d", "\\u1f35">>, <<"\\u1f3e", "\\u1f36">>, <<"\\u1f3f", "\\u1f37">>, <<"\\u1f48", "\\u1f40">>,
    <<"\\u1f49", "\\u1f41">>, <<"\\u1f4a", "\\u1f42">>, <<"\\u1f4b", "\\u1f43">>, <<"\\u1f4c", "\\u1f44">>,
    <<"\\u1f4d", "\\u1f45">>, <<"\\u1f59", "\\u1f51">>, <<"\\u1f5b", "\\u1f53">>, <<"\\u1f5d", "\\u1f55">>,
    <<"\\u1f5f", "\\u1f57">>, <<"\\u1f68", "\\u1f60">>, <<"\\u1f69", "\\u1f61">>, <<"\\u1f6a", "\\u1f62">>,
    <<"\\u1f6b", "\\u1f63">>, <<"\\u1f6c", "\\u1f64">>, <<"\\u1f6d", "\\u1f65">>, <<"\\u1f6e", "\\u1f66">>,
    <<"\\u1f6f", "\\u1f67">>, <<"\\u1f88", "\\u1f80">>, <<"\\u1f89", "\\u1f81">>, <<"\\u1f8a", "\\u1f82">>,
    <<"\\u1f8b", "\\u1f83">>, <<"\\u1f8c", "\\u1f84">>, <<"\\u1f8d", "\\u1f85">>, <<"\\u1f8e", "\\u1f86">>,
    <<"\\u1f8f", "\\u1f87">>, <<"\\u1f98", "\\u1f90">>, <<"\\u1f99", "\\u1f91">>, <<"\\u1f9a", "\\u1f92">>,
    <<"\\u1f9b", "\\u1f93">>, <<"\\u1f9c", "\\u1f94">>, <<"\\u1f9d", "\\u1f95">>, <<"\\u1f9e", "\\u1f96">>,
    <<"\\u1f9f", "\\u1f97">>, <<"\\u1fa8", "\\u1fa0">>, <<"\\u1fa9", "\\u1fa1">>, <<"\\u1faa", "\\u1fa2">>,
    <<"\\u1fab", "\\u1fa3">>, <<"\\u1fac", "\\u1fa4">>, <<"\\u1fad", "\\u1fa5">>, <<"\\u1fae", "\\u1fa6">>,
    <<"\\u1faf", "\\u1fa7">>, <<"\\u1fb8", "\\u1fb0">>, <<"\\u1fb9", "\\u1fb1">>, <<"\\u1fba", "\\u1f70">>,
    <<"\\u1fbb", "\\u1f71">>, <<"\\u1fbc", "\\u1fb3">>, <<"\\u1fc8", "\\u1f72">>, <<"\\u1fc9", "\\u1f73">>,
    <<"\\u1fca", "\\u1f74">>, <<"\\u1fcb", "\\u1f75">>, <<"\\u1fcc", "\\u1fc3">>, <<"\\u1fd8", "\\u1fd0">>,
    <<"\\u1fd9", "\\u1fd1">>, <<"\\u1fda", "\\u1f76">>, <<"\\u1fdb", "\\u1f77">>, <<"\\u1fe8", "\\u1fe0">>,
    <<"\\u1fe9", "\\u1fe1">>, <<"\\u1fea", "\\u1f7a">>, <<"\\u1feb", "\\u1f7b">>, <<"\\u1fec", "\\u1fe5">>,
    <<"\\u1ff8", "\\u1f78">>, <<"\\u1ff9", "\\u1f79">>, <<"\\u1ffa", "\\u1f7c">>, <<"\\u1ffb", "\\u1f7d">>,
    <<"\\u1ffc", "\\u1ff3">>, <<"\\u2126", "\\u03c9">>, <<"\\u212a", "k">>, <<"\\u212b", "\\u00e5">>,
    <<"\\u2132", "\\u214e">>, <<"\\u2160", "\\u2170">>, <<"\\u2161", "\\u2171">>, <<"\\u2162", "\\u2172">>,
    <<"\\u2163", "\\u2173">>, <<"\\u2164", "\\u2174">>, <<"\\u2165", "\\u2175">>, <<"\\u2166", "\\u2176">>,
    <<"\\u2167", "\\u2177">>, <<"\\u2168", "\\u2178">>, <<"\\u2169", "\\u2179">>, <<"\\u216a", "\\u217a">>,
    <<"\\u216b", "\\u217b">>, <<"\\u216c", "\\u217c">>, <<"\\u216d", "\\u217d">>, <<"\\u216e", "\\u217e">>,
    <<"\\u216f", "\\u217f">>, <<"\\u2183", "\\u2184">>, <<"\\u24b6", "\\u24d0">>, <<"\\u24b7", "\\u24d1">>,
    <<"\\u24b8", "\\u24d2">>, <<"\\u24b9", "\\u24d3">>, <<"\\u24ba", "\\u24d4">>, <<"\\u24bb", "\\u24d5">>,
    <<"\\u24bc", "\\u24d6">>, <<"\\u24bd", "\\u24d7">>, <<"\\u24be", "\\u24d8">>, <<"\\u24bf", "\\u24d9">>,
    <<"\\u24c0", "\\u24da">>, <<"\\u24c1", "\\u24db">>, <<"\\u24c2", "\\u24dc">>, <<"\\u24c3", "\\u24dd">>,
    <<"\\u24c4", "\\u24de">>, <<"\\u24c5", "\\u24df">>, <<"\\u24c6", "\\u24e0">>, <<"\\u24c7", "\\u24e1">>,
    <<"\\u24c8", "\\u24e2">>, <<"\\u24c9", "\\u24e3">>, <<"\\u24ca", "\\u24e4">>, <<"\\u24cb", "\\u24e5">>,
    <<"\\u24cc", "\\u24e6">>, <<"\\u24cd", "\\u24e7">>, <<"\\u24ce", "\\u24e8">>, <<"\\u24cf", "\\u24e9">>,
    <<"\\u2c00", "\\u2c30">>, <<"\\u2c01", "\\u2c31">>, <<"\\u2c02", "\\u2c32">>, <<"\\u2c03", "\\u2c33">>,
    <<"\\u2c04", "\\u2c34">>, <<"\\u2c05", "\\u2c35">>, <<"\\u2c06", "\\u2c36">>, <<"\\u2c07", "\\u2c37">>,
    <<"\\u2c08", "\\u2c38">>, <<"\\u2c09", "\\u2c39">>, <<"\\u2c0a", "\\u2c3a">>, <<"\\u2c0b", "\\u2c3b">>,
    <<"\\u2c0c", "\\u2c3c">>, <<"\\u2c0d", "\\u2c3d">>, <<"\\u2c0e", "\\u2c3e">>, <<"\\u2c0f", "\\u2c3f">>,
    <<"\\u2c10", "\\u2c40">>, <<"\\u2c11", "\\u2c41">>, <<"\\u2c12", "\\u2c42">>, <<"\\u2c13", "\\u2c43">>,
    <<"\\u2c14", "\\u2c44">>, <<"\\u2c15", "\\u2c45">>, <<"\\u2c16", "\\u2c46">>, <<"\\u2c17", "\\u2c47">>,
    <<"\\u2c18", "\\u2c48">>, <<"\\u2c19", "\\u2c49">>, <<"\\u2c1a", "\\u2c4a">>, <<"\\u2c1b", "\\u2c4b">>,
    <<"\\u2c1c", "\\u2c4c">>, <<"\\u2c1d", "\\u2c4d">>, <<"\\u2c1e", "\\u2c4e">>, <<"\\u2c1f", "\\u2c4f">>,
    <<"\\u2c20", "\\u2c50">>, <<"\\u2c21", "\\u2c51">>, <<"\\u2c22", "\\u2c52">>, <<"\\u2c23", "\\u2c53">>,
    <<"\\u2c24", "\\u2c54">>, <<"\\u2c25", "\\u2c55">>, <<"\\u2c26", "\\u2c56">>, <<"\\u2c27", "\\u2c57">>,
    <<"\\u2c28", "\\u2c58">>, <<"\\u2c29", "\\u2c59">>, <<"\\u2c2a", "\\u2c5a">>, <<"\\u2c2b", "\\u2c5b">>,
    <<"\\u2c2c", "\\u2c5c">>, <<"\\u2c2d", "\\u2c5d">>, <<"\\u2c2e", "\\u2c5e">>, <<"\\u2c60", "\\u2c61">>,
    <<"\\u2c62", "\\u026b">>, <<"\\u2c63", "\\u1d7d">>, <<"\\u2c64", "\\u027d">>, <<"\\u2c67", "\\u2c68">>,
    <<"\\u2c69", "\\u2c6a">>, <<"\\u2c6b", "\\u2c6c">>, <<"\\u2c6d", "\\u0251">>, <<"\\u2c6e", "\\u0271">>,
    <<"\\u2c6f", "\\u0250">>, <<"\\u2c70", "\\u0252">>, <<"\\u2c72", "\\u2c73">>, <<"\\u2c75", "\\u2c76">>,
    <<"\\u2c7e", "\\u023f">>, <<"\\u2c7f", "\\u0240">>, <<"\\u2c80", "\\u2c81">>, <<"\\u2c82", "\\u2c83">>,
    <<"\\u2c84", "\\u2c85">>, <<"\\u2c86", "\\u2c87">>, <<"\\u2c88", "\\u2c89">>, <<"\\u2c8a", "\\u2c8b">>,
    <<"\\u2c8c", "\\u2c8d">>, <<"\\u2c8e", "\\u2c8f">>, <<"\\u2c90", "\\u2c91">>, <<"\\u2c92", "\\u2c93">>,
    <<"\\u2c94", "\\u2c95">>, <<"\\u2c96", "\\u2c97">>, <<"\\u2c98", "\\u2c99">>, <<"\\u2c9a", "\\u2c9b">>,
    <<"\\u2c9c", "\\u2c9d">>, <<"\\u2c9e", "\\u2c9f">>, <<"\\u2ca0", "\\u2ca1">>, <<"\\u2ca2", "\\u2ca3">>,
    <<"\\u2ca4", "\\u2ca5">>, <<"\\u2ca6", "\\u2ca7">>, <<"\\u2ca8", "\\u2ca9">>, <<"\\u2caa", "\\u2cab">>,
    <<"\\u2cac", "\\u2cad">>, <<"\\u2cae", "\\u2caf">>, <<"\\u2cb0", "\\u2cb1">>, <<"\\u2cb2", "\\u2cb3">>,
    <<"\\u2cb4", "\\u2cb5">>, <<"\\u2cb6", "\\u2cb7">>, <<"\\u2cb8", "\\u2cb9">>, <<"\\u2cba", "\\u2cbb">>,
    <<"\\u2cbc", "\\u2cbd">>, <<"\\u2cbe", "\\u2cbf">>, <<"\\u2cc0", "\\u2cc1">>, <<"\\u2cc2", "\\u2cc3">>,
    <<"\\u2cc4", "\\u2cc5">>, <<"\\u2cc6", "\\u2cc7">>, <<"\\u2cc8", "\\u2cc9">>, <<"\\u2cca", "\\u2ccb">>,
    <<"\\u2ccc", "\\u2ccd">>, <<"\\u2cce", "\\u2ccf">>, <<"\\u2cd0", "\\u2cd1">>, <<"\\u2cd2", "\\u2cd3">>,
    <<"\\u2cd4", "\\u2cd5">>, <<"\\u2cd6", "\\u2cd7">>, <<"\\u2cd8", "\\u2cd9">>, <<"\\u2cda", "\\u2cdb">>,
    <<"\\u2cdc", "\\u2cdd">>, <<"\\u2cde", "\\u2cdf">>, <<"\\u2ce0", "\\u2ce1">>, <<"\\u2ce2", "\\u2ce3">>,
    <<"\\u2ceb", "\\u2cec">>, <<"\\u2ced", "\\u2cee">>, <<"\\ua640", "\\ua641">>, <<"\\ua642", "\\ua643">>,
    <<"\\ua644", "\\ua645">>, <<"\\ua646", "\\ua647">>, <<"\\ua648", "\\ua649">>, <<"\\ua64a", "\\ua64b">>,
    <<"\\ua64c", "\\ua64d">>, <<"\\ua64e", "\\ua64f">>, <<"\\ua650", "\\ua651">>, <<"\\ua652", "\\ua653">>,
    <<"\\ua654", "\\ua655">>, <<"\\ua656", "\\ua657">>, <<"\\ua658", "\\ua659">>, <<"\\ua65a", "\\ua65b">>,
    <<"\\ua65c", "\\ua65d">>, <<"\\ua65e", "\\ua65f">>, <<"\\ua662", "\\ua663">>, <<"\\ua664", "\\ua665">>,
    <<"\\ua666", "\\ua667">>, <<"\\ua668", "\\ua669">>, <<"\\ua66a", "\\ua66b">>, <<"\\ua66c", "\\ua66d">>,
    <<"\\ua680", "\\ua681">>, <<"\\ua682", "\\ua683">>, <<"\\ua684", "\\ua685">>, <<"\\ua686", "\\ua687">>,
    <<"\\ua688", "\\ua689">>, <<"\\ua68a", "\\ua68b">>, <<"\\ua68c", "\\ua68d">>, <<"\\ua68e", "\\ua68f">>,
    <<"\\ua690", "\\ua691">>, <<"\\ua692", "\\ua693">>, <<"\\ua694", "\\ua695">>, <<"\\ua696", "\\ua697">>,
    <<"\\ua722", "\\ua723">>, <<"\\ua724", "\\ua725">>, <<"\\ua726", "\\ua727">>, <<"\\ua728", "\\ua729">>,
    <<"\\ua72a", "\\ua72b">>, <<"\\ua72c", "\\ua72d">>, <<"\\ua72e", "\\ua72f">>, <<"\\ua732", "\\ua733">>,
    <<"\\ua734", "\\ua735">>, <<"\\ua736", "\\ua737">>, <<"\\ua738", "\\ua739">>, <<"\\ua73a", "\\ua73b">>,
    <<"\\ua73c", "\\ua73d">>, <<"\\ua73e", "\\ua73f">>, <<"\\ua740", "\\ua741">>, <<"\\ua742", "\\ua743">>,
    <<"\\ua744", "\\ua745">>, <<"\\ua746", "\\ua747">>, <<"\\ua748", "\\ua749">>, <<"\\ua74a", "\\ua74b">>,
    <<"\\ua74c", "\\ua74d">>, <<"\\ua74e", "\\ua74f">>, <<"\\ua750", "\\ua751">>, <<"\\ua752", "\\ua753">>,
    <<"\\ua754", "\\ua755">>, <<"\\ua756", "\\ua757">>, <<"\\ua758", "\\ua759">>, <<"\\ua75a", "\\ua75b">>,
    <<"\\ua75c", "\\ua75d">>, <<"\\ua75e", "\\ua75f">>, <<"\\ua760", "\\ua761">>, <<"\\ua762", "\\ua763">>,
    <<"\\ua764", "\\ua765">>, <<"\\ua766", "\\ua767">>, <<"\\ua768", "\\ua769">>, <<"\\ua76a", "\\ua76b">>,
    <<"\\ua76c", "\\ua76d">>, <<"\\ua76e", "\\ua76f">>, <<"\\ua779", "\\ua77a">>, <<"\\ua77b", "\\ua77c">>,
    <<"\\ua77d", "\\u1d79">>, <<"\\ua77e", "\\ua77f">>, <<"\\ua780", "\\ua781">>, <<"\\ua782", "\\ua783">>,
    <<"\\ua784", "\\ua785">>, <<"\\ua786", "\\ua787">>, <<"\\ua78b", "\\ua78c">>, <<"\\uff21", "\\uff41">>,
    <<"\\uff22", "\\uff42">>, <<"\\uff23", "\\uff43">>, <<"\\uff24", "\\uff44">>, <<"\\uff25", "\\uff45">>,
    <<"\\uff26", "\\uff46">>, <<"\\uff27", "\\uff47">>, <<"\\uff28", "\\uff48">>, <<"\\uff29", "\\uff49">>,
    <<"\\uff2a", "\\uff4a">>, <<"\\uff2b", "\\uff4b">>, <<"\\uff2c", "\\uff4c">>, <<"\\uff2d", "\\uff4d">>,
    <<"\\uff2e", "\\uff4e">>, <<"\\uff2f", "\\uff4f">>, <<"\\uff30", "\\uff50">>, <<"\\uff31", "\\uff51">>,
    <<"\\uff32", "\\uff52">>, <<"\\uff33", "\\uff53">>, <<"\\uff34", "\\uff54">>, <<"\\uff35", "\\uff55">>,
    <<"\\uff36", "\\uff56">>, <<"\\uff37", "\\uff57">>, <<"\\uff38", "\\uff58">>, <<"\\uff39", "\\uff59">>,
    <<"\\uff3a", "\\uff5a">>
  >>

RECURSIVE LowerTable(_, _)
\* the mapping of the pairs lo..hi as a function
LowerTable(lo, hi) ==
  IF lo = hi THEN LowerPairs[lo][1] :> LowerPairs[lo][2]
  ELSE LowerTable(lo, (lo + hi) \div 2) @@ LowerTable((lo + hi) \div 2 + 1, hi)

\* the lower-case letter of an upper-case or title-case letter
LowerCase == LowerTable(1, Len(LowerPairs))

\* the characters unicode.lower() changes
UpperLetters == DOMAIN LowerCase

\* one character of unicode.lower()
LowerOf(c) == IF c \in UpperLetters THEN LowerCase[c] ELSE c

\* unicode.lower()
Lower(s) == [i \in 1..Len(s) |-> LowerOf(s[i])]

\* the part of s before the first character of the set stop (all of s if none)
Before(s, stop) ==
  LET hits == {i \in 1..Len(s) : s[i] \in stop}
  IN IF hits = {} THEN s
     ELSE SubSeq(s, 1, (CHOOSE i \in hits : \A j \in hits : i <= j) - 1)

\* is_command(text): text.startswith('/')
is_command(text) == Len(text) > 0 /\ text[1] = "/"

\* text.split()[0] of a text that starts with '/': the first token
FirstToken(text) == Before(text, Whitespace)

\* extract_command(text): [is_none, value]; is_none stands for Python's None
extract_command(text) ==
  IF is_command(text)
  THEN [is_none |-> FALSE,
        value |-> Lower(Tail(Before(FirstToken(text), {"@"})))]
  ELSE [is_none |-> TRUE, value |-> <<>>]

\* Python's truth value of extract_command's result: None and '' are false
Truthy(cmd) == ~cmd.is_none /\ cmd.value # <<>>

EndsWithDollar(p) == Len(p) > 0 /\ p[Len(p)] = "$"

\* A variant of ReMatchAnchored without the end anchor, as re.match of the
\* bare pattern: a command that only begins with the pattern matches too.
ReMatchAnchored_Prefix(pattern, cmd) ==
  /\ Len(cmd) >= Len(pattern) - 1
  /\ SubSeq(cmd, 1, Len(pattern) - 1) = SubSeq(pattern, 1, Len(pattern) - 1)

\* re.match(command_pattern, cmd) for a pattern of literal characters that
\* ends with '$': the pattern's characters, then the end of cmd
ReMatchAnchored(pattern, cmd) == cmd = SubSeq(pattern, 1, Len(pattern) - 1)

\* lines 290-294: one command pattern against the command
CommandMatches(command_pattern, cmd) ==
  LET p == IF EndsWithDollar(command_pattern) THEN command_pattern
           ELSE Append(command_pattern, "$")
  IN ReMatchAnchored(p, cmd)

\* re.search(regexp, text) for a regexp of literal characters
ReSearch(regexp, text) ==
  \E i \in 1..(Len(text) - Len(regexp) + 1) :
    SubSeq(text, i, i + Len(regexp) - 1) = regexp

\* the predicates an application passes as func
LambdaEval(func, message) ==
  CASE func = "always" -> TRUE
    [] func = "photo_only" -> message.content_type = "photo"
    [] OTHER -> FALSE

\* register_message_handler's func_dict. An argument left out is <<>> (commands,
\* regexp), None (func) or {} (content_types): all false in Python. has_regexp,
\* has_lambda and has_commands say that the key is in the dict; the commands
\* and the regexp of a handler that does not take text are stored as None,
\* which commands_is_none and regexp_is_none say (the field is then <<>>).
FuncDict(fn, commands, regexp, func, content_types) ==
  LET cts == IF content_types = {} THEN {"text"} ELSE content_types
  IN [function |-> fn,
      content_types |-> cts,
      has_regexp |-> regexp # <<>>,
      regexp_is_none |-> regexp # <<>> /\ "text" \notin cts,
      regexp |-> IF "text" \in cts THEN regexp ELSE <<>>,
      has_lambda |-> func # None,
      lambda |-> func,
      has_commands |-> commands # <<>>,
      commands_is_none |-> commands # <<>> /\ "text" \notin cts,
      commands |-> IF "text" \in cts THEN commands ELSE <<>>]

\* lines 289-295: the command is there, so the command patterns decide
TestCommands(message_handler, cmd) ==
  \E i \in 1..Len(message_handler.commands) :
    CommandMatches(message_handler.commands[i], cmd.value)

\* lines 296-302: the regexp, then the predicate
TestRegexpAndLambda(message_handler, message) ==
  IF message_handler.has_regexp /\ message.content_type = "text"
     /\ ReSearch(message_handler.regexp, message.text)
  THEN TRUE
  ELSE IF message_handler.has_lambda
  THEN LambdaEval(message_handler.lambda, message)
  ELSE FALSE

\* _test_message_handler(message_handler, message)
test_message_handler(message_handler, message) ==
  IF message.content_type \notin message_handler.content_types THEN FALSE
  ELSE IF message_handler.has_commands /\ message.content_type = "text"
          /\ Truthy(extract_command(message.text))
  THEN TestCommands(message_handler, extract_command(message.text))
  ELSE TestRegexpAndLambda(message_handler, message)

\* A variant of _find_command_handler_function that goes on to the end of the
\* list: the handler registered last among those that match wins.
find_command_handler_function_Last(mhs, message) ==
  LET hits == {i \in 1..Len(mhs) : test_message_handler(mhs[i], message)}
  IN IF hits = {} THEN None
     ELSE mhs[CHOOSE i \in hits : \A j \in hits : j <= i].function

\* _find_command_handler_function(message): the first handler that matches
find_command_handler_function(mhs, message) ==
  LET hits == {i \in 1..Len(mhs) : test_message_handler(mhs[i], message)}
  IN IF hits = {} THEN None
     ELSE mhs[CHOOSE i \in hits : \A j \in hits : i <= j].function

-----------------------------------------------------------------------------
(* cachetools.LRUCache as a sequence of [key, value], least recently used   *)
(* first.                                                                   *)

CacheKeys(c) == {c[i].key : i \in 1..Len(c)}

CacheGet(c, k) == (CHOOSE i \in 1..Len(c) : c[i].key = k)

CacheDel(c, k) == SelectSeq(c, LAMBDA e : e.key # k)

\* A variant of CacheSet that never evicts, as a plain dict would: the caches
\* grow past their maxsize under it.
CacheSet_Unbounded(c, maxsize, k, v) ==
  Append(CacheDel(c, k), [key |-> k, value |-> v])

\* cache[k] = v: a present key is refreshed, a full cache evicts its least
\* recently used entry first
CacheSet(c, maxsize, k, v) ==
  IF k \in CacheKeys(c) THEN Append(CacheDel(c, k), [key |-> k, value |-> v])
  ELSE IF Len(c) >= maxsize THEN Append(Tail(c), [key |-> k, value |-> v])
  ELSE Append(c, [key |-> k, value |-> v])

\* cache[k] of a present key, without the refresh of its recency
c_value(c, k) == c[CacheGet(c, k)].value

\* cache.pop(k, None): [cache, value]
CachePop(c, k) ==
  IF k \in CacheKeys(c)
  THEN [cache |-> CacheDel(c, k), value |-> c[CacheGet(c, k)].value]
  ELSE [cache |-> c, value |-> None]

-----------------------------------------------------------------------------
(* process_message *)

NoReply == 0      \* the message has no reply_to_message attribute

\* A variant of _find_message_subscriber_handler_function that reads the
\* subscription and leaves it in the cache: a second reply finds it again.
find_message_subscriber_handler_function_Keep(subs, message) ==
  IF message.reply_to = NoReply \/ message.reply_to \notin CacheKeys(subs)
  THEN [cache |-> subs, value |-> None]
  ELSE [cache |-> subs, value |-> c_value(subs, message.reply_to)]

\* _find_message_subscriber_handler_function(message)
find_message_subscriber_handler_function(subs, message) ==
  IF message.reply_to = NoReply THEN [cache |-> subs, value |-> None]
  ELSE CachePop(subs, message.reply_to)

\* A variant of _find_message_next_handler that reads the chat's handler and
\* leaves it in the cache: the chat's next message finds it again.
find_message_next_handler_Keep(nexts, message) ==
  IF message.chat \notin CacheKeys(nexts) THEN [cache |-> nexts, value |-> None]
  ELSE [cache |-> nexts, value |-> c_value(nexts, message.chat)]

\* _find_message_next_handler(message)
find_message_next_handler(nexts, message) == CachePop(nexts, message.chat)

\* lines 215-217: the static handlers, when no cache resolved the message
ResolveStatic(subs, nexts, f) ==
  [subs |-> subs, nexts |-> nexts,
   invoked |-> IF f = None THEN <<>> ELSE <<[via |-> "static", fn |-> f]>>]

\* lines 211-213: n is what _find_message_next_handler returned
ResolveNext(mhs, subs, n, message) ==
  IF n.value # None
  THEN [subs |-> subs, nexts |-> n.cache,
        invoked |-> <<[via |-> "next", fn |-> n.value]>>]
  ELSE ResolveStatic(subs, n.cache, find_command_handler_function(mhs, message))

\* A variant of ResolveSubscriber that lets a next-step handler of the chat win
\* over the reply subscription: the precedence fails under it.
ResolveSubscriber_NextFirst(mhs, s, nexts, message) ==
  IF find_message_next_handler(nexts, message).value # None
  THEN ResolveNext(mhs, s.cache, find_message_next_handler(nexts, message), message)
  ELSE IF s.value # None
  THEN [subs |-> s.cache, nexts |-> nexts,
        invoked |-> <<[via |-> "subscriber", fn |-> s.value]>>]
  ELSE ResolveNext(mhs, s.cache, find_message_next_handler(nexts, message), message)

\* A variant of ResolveSubscriber that pops the chat's next-step handler as
\* well when the reply subscription resolves the message: the next-step
\* handler is lost to the chat's next message under it.
ResolveSubscriber_PopsNext(mhs, s, nexts, message) ==
  IF s.value # None
  THEN [subs |-> s.cache, nexts |-> find_message_next_handler(nexts, message).cache,
        invoked |-> <<[via |-> "subscriber", fn |-> s.value]>>]
  ELSE ResolveNext(mhs, s.cache, find_message_next_handler(nexts, message), message)

\* lines 207-209: s is what _find_message_subscriber_handler_function returned
ResolveSubscriber(mhs, s, nexts, message) ==
  IF s.value # None
  THEN [subs |-> s.cache, nexts |-> nexts,
        invoked |-> <<[via |-> "subscriber", fn |-> s.value]>>]
  ELSE ResolveNext(mhs, s.cache, find_message_next_handler(nexts, message), message)

\* process_message(message): the caches it leaves and the handlers it
\* invokes, each with the stage that resolved it (the first stage that
\* resolves returns)
process_message(mhs, subs, nexts, message) ==
  ResolveSubscriber(mhs, find_message_subscriber_handler_function(subs, message),
                    nexts, message)

-----------------------------------------------------------------------------
(* The batch dispatch: process_updates, process_updates_parallel_with_handler,*)
(* process_messages, process_messages_in_order.                             *)
(*                                                                          *)
(* An update is [update_id, kind, chat, reply_to, content_type, text].      *)
(* The dispatch state threaded through one reactor turn is the record       *)
(* [subs, nexts, inv, route, calls, prelog]; route keeps, per message, the  *)
(* handlers process_message invoked and the two caches as it found them.    *)

KindOrder == <<"inline_query", "chosen_inline_result", "callback_query", "channel_post">>

Outcomes == {"value", "raise", "deferred"}

\* positions of the updates of one kind, in arrival order (lines 152-171)
PositionsOf(b, kind) ==
  SelectSeq([i \in 1..Len(b) |-> i], LAMBDA i : b[i].kind = kind)

Largest(ids) == CHOOSE m \in ids : \A x \in ids : x <= m

Smallest(ids) == CHOOSE m \in ids : \A x \in ids : m <= x

\* lines 145, 173-174
max_update_id(b) == Largest({b[i].update_id : i \in 1..Len(b)} \cup {EmptyMax})

\* _map_function_to_deferred: what the invocation leaves behind
map_function_to_deferred(outcome) ==
  CASE outcome = "value" -> "ok"             \* d.callback(rv): a fired Deferred
    [] outcome = "deferred" -> "pending"     \* the handler's own Deferred
    [] OTHER -> "raise"                      \* f raised: no Deferred at all

\* process_updates_parallel_with_handler's updates, when it invokes at all
\* (line 196)
KindGroup(hs, b, kind) == IF hs[kind] # None THEN PositionsOf(b, kind) ELSE <<>>

\* The calls process_updates makes before process_messages, in order
\* (lines 183-188)
KindCalls(hs, b) ==
  KindGroup(hs, b, KindOrder[1]) \o KindGroup(hs, b, KindOrder[2])
    \o KindGroup(hs, b, KindOrder[3]) \o KindGroup(hs, b, KindOrder[4])

\* the invocations that run: all of K, or K up to the first that raises
RanOf(K, bad) ==
  {K[j] : j \in 1..(IF bad = {} THEN Len(K) ELSE Smallest(bad))}

KindsLaunched(b, o, ran, raised) ==
  [inv |-> [i \in 1..Len(b) |->
              IF i \in ran THEN map_function_to_deferred(o[i]) ELSE "none"],
   raised |-> raised]

RaisingIn(K, o) == {j \in 1..Len(K) : o[K[j]] = "raise"}

\* The list comprehension of line 197 inside the list of lines 182-191: the
\* invocations run in order and a handler that raises ends the evaluation.
LaunchKinds(hs, b, o) ==
  KindsLaunched(b, o, RanOf(KindCalls(hs, b), RaisingIn(KindCalls(hs, b), o)),
                RaisingIn(KindCalls(hs, b), o) # {})

RECURSIVE InsertByChat_Unstable(_, _, _)
\* A variant of InsertByChat that puts i before the positions of its own chat,
\* as an unstable sort may: the arrival order inside a chat fails under it.
InsertByChat_Unstable(b, sorted, i) ==
  IF sorted = <<>> THEN <<i>>
  ELSE IF b[Head(sorted)].chat < b[i].chat
       THEN <<Head(sorted)>> \o InsertByChat_Unstable(b, Tail(sorted), i)
       ELSE <<i>> \o sorted

RECURSIVE InsertByChat(_, _, _)
\* i put after every position of sorted whose chat id is not larger
InsertByChat(b, sorted, i) ==
  IF sorted = <<>> THEN <<i>>
  ELSE IF b[Head(sorted)].chat <= b[i].chat
       THEN <<Head(sorted)>> \o InsertByChat(b, Tail(sorted), i)
       ELSE <<i>> \o sorted

RECURSIVE SortedByChat(_, _)
\* sorted(messages, key=lambda m: m.chat.id): a stable sort
SortedByChat(b, ps) ==
  IF ps = <<>> THEN <<>>
  ELSE InsertByChat(b, SortedByChat(b, SubSeq(ps, 1, Len(ps) - 1)), ps[Len(ps)])

\* the length of the run of one chat id at the head of sorted
RunLength(b, sorted) ==
  IF \A j \in 1..Len(sorted) : b[sorted[j]].chat = b[sorted[1]].chat
  THEN Len(sorted)
  ELSE Smallest({j \in 1..Len(sorted) : b[sorted[j]].chat # b[sorted[1]].chat}) - 1

RECURSIVE GroupBy(_, _)
\* groupby(..., key=lambda m: m.chat.id): the runs of equal chat id
GroupBy(b, sorted) ==
  IF sorted = <<>> THEN <<>>
  ELSE <<SubSeq(sorted, 1, RunLength(b, sorted))>>
         \o GroupBy(b, SubSeq(sorted, RunLength(b, sorted) + 1, Len(sorted)))

\* _notify_message_prehandlers(message)
notify_message_prehandlers(pre, log, i) ==
  log \o [k \in 1..Len(pre) |-> <<i, pre[k]>>]

\* what process_message's return value is to the generator: nothing resolved
\* (None), or what _map_function_to_deferred made of the handler's call
HandlerResult(r, outcome) ==
  IF r.invoked = <<>> THEN "none" ELSE map_function_to_deferred(outcome)

\* the dispatch state after process_message(batch[i]) returned r
AfterCall(mhs, pre, st, i, r, res) ==
  [subs |-> r.subs, nexts |-> r.nexts,
   inv |-> [st.inv EXCEPT ![i] = res],
   route |-> [st.route EXCEPT ![i] =
                [invoked |-> r.invoked, mhs |-> mhs,
                 subs |-> st.subs, nexts |-> st.nexts,
                 subs_left |-> r.subs, nexts_left |-> r.nexts]],
   calls |-> Append(st.calls, i),
   prelog |-> notify_message_prehandlers(pre, st.prelog, i)]

RECURSIVE RunFrom(_, _, _, _, _, _, _)

\* A variant of Yield that sends a pending Deferred back at once, as a plain
\* loop over process_message would: the per-chat ordering fails under it.
Yield_NoWait(mhs, pre, b, st1, g, k, o, res) ==
  CASE res = "raise" -> [st |-> st1, status |-> "failed", at |-> g[k], k |-> k]
    [] OTHER -> RunFrom(mhs, pre, b, st1, g, k + 1, o)

\* line 222, yield: a raise ends the generator, a pending Deferred suspends it,
\* anything else is sent back at once
Yield(mhs, pre, b, st1, g, k, o, res) ==
  CASE res = "raise" -> [st |-> st1, status |-> "failed", at |-> g[k], k |-> k]
    [] res = "pending" -> [st |-> st1, status |-> "waiting", at |-> g[k], k |-> k]
    [] OTHER -> RunFrom(mhs, pre, b, st1, g, k + 1, o)

CallMessage(mhs, pre, b, st, g, k, o, r) ==
  Yield(mhs, pre, b, AfterCall(mhs, pre, st, g[k], r, HandlerResult(r, o[g[k]])),
        g, k, o, HandlerResult(r, o[g[k]]))

\* process_messages_in_order from the k-th message of the group g, until the
\* generator is exhausted ("done"), a handler raised ("failed") or a handler
\* returned a Deferred that has not fired ("waiting")
RunFrom(mhs, pre, b, st, g, k, o) ==
  IF k > Len(g) THEN [st |-> st, status |-> "done", at |-> 0, k |-> k]
  ELSE CallMessage(mhs, pre, b, st, g, k, o,
                   process_message(mhs, st.subs, st.nexts, b[g[k]]))

\* groupby's next() skips what the group's iterator has not consumed; at the
\* end of the input the last value skipped stays in the groupby
LeftInGroupBy(g, is_last, r) ==
  IF is_last /\ r.status # "done" /\ r.k < Len(g) THEN g[Len(g)] ELSE 0

PipesWith(ps, c, r) ==
  [x \in DOMAIN ps \cup {c} |->
     IF x = c THEN [status |-> r.status, at |-> r.at] ELSE ps[x]]

GroupLaunched(b, acc, g, is_last, r) ==
  [st |-> r.st, pipes |-> PipesWith(acc.pipes, b[g[1]].chat, r),
   gb |-> LeftInGroupBy(g, is_last, r)]

RECURSIVE LaunchGroups_Serial(_, _, _, _, _, _, _)
\* A variant of LaunchGroups that stops at the first group whose generator is
\* left waiting, as a loop that yields each chat's pipeline in turn would: the
\* chats after it are not started under it.
LaunchGroups_Serial(mhs, pre, b, acc, groups, n, o) ==
  IF n > Len(groups) THEN acc
  ELSE IF \E c \in DOMAIN acc.pipes : acc.pipes[c].status = "waiting" THEN acc
  ELSE LaunchGroups_Serial(mhs, pre, b,
         GroupLaunched(b, acc, groups[n], n = Len(groups),
                       RunFrom(mhs, pre, b, acc.st, groups[n], 1, o)),
         groups, n + 1, o)

RECURSIVE LaunchGroups(_, _, _, _, _, _, _)
\* the list comprehension of lines 226-228: every group's generator is run, in
\* ascending chat id, as far as it goes in this turn
LaunchGroups(mhs, pre, b, acc, groups, n, o) ==
  IF n > Len(groups) THEN acc
  ELSE LaunchGroups(mhs, pre, b,
         GroupLaunched(b, acc, groups[n], n = Len(groups),
                       RunFrom(mhs, pre, b, acc.st, groups[n], 1, o)),
         groups, n + 1, o)

NoPipes == [c \in {} |-> [status |-> "done", at |-> 0]]

\* process_messages(messages) with the dispatch state st
process_messages(mhs, pre, b, st, o) ==
  LaunchGroups(mhs, pre, b, [st |-> st, pipes |-> NoPipes, gb |-> 0],
               GroupBy(b, SortedByChat(b, PositionsOf(b, "message"))), 1, o)

\* A variant of Settled that holds as soon as one invocation has fired, as a
\* DeferredList with fireOnOneCallback would: the cursor moves early under it.
Settled_FirstFired(iv, ps) ==
  \/ \A i \in DOMAIN iv : iv[i] # "pending"
  \/ \E i \in DOMAIN iv : iv[i] \in {"ok", "err"}

\* the DeferredList of process_updates has fired: every kind invocation and
\* every chat's generator has finished
Settled(iv, ps) ==
  /\ \A i \in DOMAIN iv : iv[i] # "pending"
  /\ \A c \in DOMAIN ps : ps[c].status \in {"done", "failed"}

-----------------------------------------------------------------------------
(* The inputs *)

Command == <<"/", "s", "t", "a", "r", "t">>
Plain == <<"h", "i">>

Upd(kind) == [kind |-> kind, chat |-> 0, reply_to |-> NoReply,
              content_type |-> "text", text |-> <<>>]

Msg(chat, reply_to, content_type, text) ==
  [kind |-> "message", chat |-> chat, reply_to |-> reply_to,
   content_type |-> content_type, text |-> text]

\* what the upstream sends in the dispatch model: updates of a kind that has a
\* handler and messages of two chats
LoopShapes ==
  {Upd("inline_query")} \cup {Msg(c, NoReply, "text", Plain) : c \in {1, 2}}

\* what the upstream sends in the backoff model: two kinds that have a handler,
\* one that has none and one that get_update does not know
GroupShapes ==
  {Upd(k) : k \in {"inline_query", "callback_query"}}
    \cup {Msg(c, NoReply, "text", Plain) : c \in {1, 2}}
KindShapes ==
  {Upd(k) : k \in {"inline_query", "callback_query", "channel_post", "unknown"}}

\* the messages of a direct process_messages call
DirectShapes == {Msg(c, r, "text", Command) : c \in {1, 2}, r \in {NoReply, 7}}

\* the chat ids of the messages of the repository's test
ExampleChats == <<1, 2, 2, 3, 1, 2, 3, 1, 1, 3>>

Example == [n \in 1..Len(ExampleChats) |-> Msg(ExampleChats[n], NoReply, "text", Command)]

Delays == {0, 5}     \* the default_delay arguments of start_update

\* the texts of the matching model
TStart == <<"/", "s", "t", "a", "r", "t">>
TStartBot == <<"/", "s", "t", "a", "r", "t", "@", "m", "y", "b", "o", "t", " ",
               "e", "x", "t", "r", "a">>
TUpper == <<"/", "S", "T", "A", "R", "T">>
TBare == <<"s", "t", "a", "r", "t">>
TStarted == <<"/", "s", "t", "a", "r", "t", "e", "d">>
TSlash == <<"/">>
THi == <<"h", "i">>
\* a text that Message.de_json never delivers as it is (line 78 of types.py
\* joins the tokens of the text with single spaces) and that a Message built
\* by the caller of process_messages holds: "/", E acute, "T", E acute, a
\* no-break space, "x"
TAccented == <<"/", "\\u00c9", "T", "\\u00c9", "\\u00a0", "x">>

MatchTexts ==
  {TStart, TStartBot, TAccented, TUpper, TBare, TStarted, TSlash, THi}

\* the messages of the matching model: texts and a photo, all of chat 1
MatchShapes ==
  {Msg(1, NoReply, "text", t) : t \in MatchTexts} \cup {Msg(1, NoReply, "photo", <<>>)}

WithId(shape, id) ==
  [update_id |-> id, kind |-> shape.kind, chat |-> shape.chat,
   reply_to |-> shape.reply_to, content_type |-> shape.content_type,
   text |-> shape.text]

NoRoute == [invoked |-> <<>>, mhs |-> <<>>, subs |-> <<>>, nexts |-> <<>>,
            subs_left |-> <<>>, nexts_left |-> <<>>]

\* the registrations of the dispatch model: a message handler for every text
\* message, one prehandler, and a handler for two of the four kinds
CatchAll == FuncDict("on_message", <<>>, <<>>, "always", {})

\* the registrations of the matching model, as the arguments of
\* register_message_handler: commands=['start']; commands=['start'],
\* regexp='hi'; and commands=['start'], content_types=['photo'],
\* func=lambda m: True
StartArgs == [fn |-> "on_start", commands |-> <<<<"s", "t", "a", "r", "t">>>>,
              regexp |-> <<>>, func |-> None, content_types |-> {}]

StartOrHiArgs == [fn |-> "on_start_or_hi", commands |-> <<<<"s", "t", "a", "r", "t">>>>,
                  regexp |-> THi, func |-> None, content_types |-> {}]

PhotoArgs == [fn |-> "on_photo", commands |-> <<<<"s", "t", "a", "r", "t">>>>,
              regexp |-> <<>>, func |-> "always", content_types |-> {"photo"}]

MatchRegistrations == {StartArgs, StartOrHiArgs, PhotoArgs}

\* the func_dict a registration appends
Registered(a) == FuncDict(a.fn, a.commands, a.regexp, a.func, a.content_types)

OnStart == Registered(StartArgs)

OnStartOrHi == Registered(StartOrHiArgs)

OnPhoto == Registered(PhotoArgs)

SomeKindHandlers ==
  [k \in Range(KindOrder) |->
     IF k \in {"inline_query", "callback_query"} THEN "on_update" ELSE None]

-----------------------------------------------------------------------------
(* The poll loop: start_update, update_bot, stop_update, get_update *)

\* line 127
RetryAfterFailure(retry) == Min(retry + RetryStep, RetryCeiling)

\* A variant of RetryAfterSuccess that keeps the delay the failures left: the
\* reset fails under it.
RetryAfterSuccess_Keep(retry, d) == retry

\* line 124
RetryAfterSuccess(retry, d) == d

\* A variant of CursorAfterBatch that takes the largest id of the updates whose
\* kind get_update knows, as a maximum taken inside the branches would be: an
\* unknown update at the end of a batch is left behind the cursor under it.
CursorAfterBatch_Known(cursor, b) ==
  max_update_id(SelectSeq(b, LAMBDA u : u.kind # "unknown"))

\* line 178
CursorAfterBatch(cursor, b) == max_update_id(b)

\* line 137
RequestOffset(cursor) == cursor + 1

\* The upstream at a getUpdates request: the updates below the offset are
\* confirmed and forgotten (a negative offset counts from the end of the queue).
Confirmed(q, off) ==
  IF off >= 0 THEN SelectSeq(q, LAMBDA u : u.update_id >= off)
  ELSE IF Len(q) <= -off THEN q
  ELSE SubSeq(q, Len(q) + off + 1, Len(q))

\* the ids the upstream gives to the updates it creates, in order
NewId(n) == MaxGroups - supply + n

\* the batch in flight of an update_bot closure that has none
NoDispatch ==
  [batch |-> <<>>, inv |-> <<>>, route |-> <<>>, calls |-> <<>>,
   prelog |-> <<>>, pipes |-> NoPipes, gb |-> 0]

\* no further update_bot closure
NoOthers ==
  [k \in 1..(MaxLoops - 1) |->
     [pc |-> "none", default_delay |-> 0, d |-> NoDispatch]]

\* start_update(default_delay) when no update_bot of an earlier call is
\* scheduled or in flight. reactor.callWhenRunning calls update_bot inside the
\* call when the reactor is running, and the request is sent (lines 117-122,
\* 137-140); before that it queues the call for the reactor's start.
StartUpdate(d) ==
  /\ pc \in {"idle", "exited"}
  /\ running' = TRUE
  /\ default_delay' = d
  /\ delay' = 0
  /\ last_poll' = "none"            \* this loop has not polled yet
  /\ IF reactor
     THEN /\ pc' = "polling"
          /\ offset' = RequestOffset(last_update_id)
          /\ queue' = Confirmed(queue, RequestOffset(last_update_id))
          /\ batch' = <<>> /\ inv' = <<>> /\ route' = <<>> /\ calls' = <<>>
          /\ prelog' = <<>> /\ pipes' = NoPipes /\ gb' = 0
          /\ recovered' = 0
     ELSE /\ pc' = "timer"
          /\ UNCHANGED <<offset, queue, batch_vars, recovered>>
  /\ UNCHANGED <<last_update_id, retry_update, message_subscribers,
                 message_next_handlers, streak, base, supply, faults>>
  /\ UNCHANGED <<reactor_vars, bot_vars>>

\* stop_update()
StopUpdate ==
  /\ running
  /\ running' = FALSE
  /\ UNCHANGED <<last_update_id, retry_update, pc, default_delay, delay,
                 message_subscribers, message_next_handlers>>
  /\ UNCHANGED <<reactor_vars, bot_vars, upstream_vars, batch_vars, obs_vars>>

\* A variant of TimerFires without the test of self.running: the loop goes on
\* polling after stop_update.
TimerFires_Always ==
  /\ reactor
  /\ pc = "timer"
  /\ pc' = "polling"
  /\ offset' = RequestOffset(last_update_id)
  /\ queue' = Confirmed(queue, RequestOffset(last_update_id))
  /\ batch' = <<>> /\ inv' = <<>> /\ route' = <<>> /\ calls' = <<>>
  /\ prelog' = <<>> /\ pipes' = NoPipes /\ gb' = 0
  /\ UNCHANGED <<last_update_id, retry_update, running, default_delay, delay,
                 message_subscribers, message_next_handlers, supply, faults,
                 last_poll, streak, base>>
  /\ recovered' = 0
  /\ UNCHANGED <<reactor_vars, bot_vars>>

\* update_bot is called by the running reactor: it returns if the bot was stopped and
\* otherwise get_update sends the getUpdates request, which confirms the
\* updates below its offset (lines 118-122, 137-140)
TimerFires ==
  /\ reactor
  /\ pc = "timer"
  /\ IF running
     THEN /\ pc' = "polling"
          /\ offset' = RequestOffset(last_update_id)
          /\ queue' = Confirmed(queue, RequestOffset(last_update_id))
     ELSE /\ pc' = "exited"
          /\ UNCHANGED <<offset, queue>>
  /\ batch' = <<>> /\ inv' = <<>> /\ route' = <<>> /\ calls' = <<>>
  /\ prelog' = <<>> /\ pipes' = NoPipes /\ gb' = 0
  /\ UNCHANGED <<last_update_id, retry_update, running, default_delay, delay,
                 message_subscribers, message_next_handlers, supply, faults,
                 last_poll, streak, base>>
  /\ recovered' = 0
  /\ UNCHANGED <<reactor_vars, bot_vars>>

\* A variant of Backoff that does not schedule update_bot again: the loop ends
\* with the first get_update that fails.
Backoff_GivesUp ==
  /\ retry_update' = RetryAfterFailure(retry_update)
  /\ delay' = retry_update'
  /\ pc' = "exited"
  /\ UNCHANGED <<last_update_id, running, default_delay>>

\* A variant of Backoff that also puts the cursor back to its first value, as
\* a loop that starts over after an error would.
Backoff_ResetCursor ==
  /\ retry_update' = RetryAfterFailure(retry_update)
  /\ delay' = retry_update'
  /\ pc' = "timer"
  /\ last_update_id' = InitialCursor
  /\ UNCHANGED <<running, default_delay>>

\* the except branch of update_bot (lines 125-128)
Backoff ==
  /\ retry_update' = RetryAfterFailure(retry_update)
  /\ delay' = retry_update'        \* reactor.callLater(self.retry_update, ...)
  /\ pc' = "timer"
  /\ UNCHANGED <<last_update_id, running, default_delay>>

\* get_update returns (line 178) and update_bot goes on (lines 124, 128)
Finish(b) ==
  /\ last_update_id' = CursorAfterBatch(last_update_id, b)
  /\ retry_update' = RetryAfterSuccess(retry_update, default_delay)
  /\ delay' = retry_update'
  /\ pc' = "timer"
  /\ last_poll' = "ok"
  /\ streak' = 0
  /\ base' = 0
  /\ recovered' = streak
  /\ UNCHANGED <<running, default_delay>>

\* the getUpdates request fails (transport error, HTTP error, invalid JSON)
PollFail ==
  /\ pc = "polling"
  /\ faults > 0
  /\ faults' = faults - 1
  /\ Backoff
  /\ last_poll' = "transport_error"
  /\ streak' = streak + 1
  /\ base' = IF streak = 0 THEN retry_update ELSE base
  /\ UNCHANGED <<queue, supply, offset, recovered,
                 message_subscribers, message_next_handlers>>
  /\ UNCHANGED <<reactor_vars, bot_vars, batch_vars>>

\* the dispatch state when process_updates begins
BeforeMessages(b, iv) ==
  [subs |-> message_subscribers, nexts |-> message_next_handlers,
   inv |-> iv, route |-> [i \in 1..Len(b) |-> NoRoute],
   calls |-> <<>>, prelog |-> <<>>]

\* the batch vars after the launch d = [st, pipes, gb]
Launched(b, d) ==
  /\ batch' = b
  /\ inv' = d.st.inv
  /\ route' = d.st.route
  /\ calls' = d.st.calls
  /\ prelog' = d.st.prelog
  /\ pipes' = d.pipes
  /\ gb' = d.gb
  /\ message_subscribers' = d.st.subs
  /\ message_next_handlers' = d.st.nexts

\* lines 176-178 and 121-128 once process_updates has launched d
AfterLaunch(b, raised, d) ==
  /\ Launched(b, d)
  /\ IF raised
     THEN /\ faults > 0
          /\ faults' = faults - 1
          /\ Backoff
          /\ last_poll' = "handler_raised"
          /\ streak' = 0
          /\ base' = 0
          /\ UNCHANGED recovered
     ELSE IF Settled(d.st.inv, d.pipes)
     THEN Finish(b) /\ UNCHANGED faults
     ELSE /\ pc' = "dispatch"
          /\ last_poll' = "pending"
          /\ UNCHANGED <<last_update_id, retry_update, running, default_delay,
                         delay, streak, base, recovered, faults>>

\* lines 180-192: a kind handler that raises ends process_updates before
\* process_messages is called
ProcessUpdates(b, o, kinds) ==
  AfterLaunch(b, kinds.raised,
    IF kinds.raised
    THEN [st |-> BeforeMessages(b, kinds.inv), pipes |-> NoPipes, gb |-> 0]
    ELSE process_messages(message_handlers, message_prehandlers, b,
                          BeforeMessages(b, kinds.inv), o))

GetUpdate(b, o) ==
  /\ Len(b) <= MaxGroups
  /\ \A i \in DOMAIN o : i > Len(b) => o[i] = "value"   \* no handler to choose for
  /\ queue' = b
  /\ ProcessUpdates(b, o, LaunchKinds(handlers, b, o))

\* the getUpdates request is answered with the unconfirmed updates, the new
\* ones `more` among them: get_update sorts them by kind and process_updates
\* launches every handler it gets to (lines 142-176); when nothing is left
\* pending get_update returns in the same turn
PollOk(more, o) ==
  /\ pc = "polling"
  /\ Len(more) <= supply
  /\ supply' = supply - Len(more)
  /\ GetUpdate(queue \o [n \in 1..Len(more) |-> WithId(more[n], NewId(n))], o)
  /\ UNCHANGED offset
  /\ UNCHANGED <<reactor_vars, bot_vars>>

\* the batch in flight of the update_bot of start_update's first call
Primary ==
  [batch |-> batch, inv |-> inv, route |-> route, calls |-> calls,
   prelog |-> prelog, pipes |-> pipes, gb |-> gb]

\* the dispatch state of the batch in flight r when a Deferred has fired
AfterFireOf(r, iv) ==
  [subs |-> message_subscribers, nexts |-> message_next_handlers,
   inv |-> iv, route |-> r.route, calls |-> r.calls, prelog |-> r.prelog]

AfterFire(iv) == AfterFireOf(Primary, iv)

\* what the group's iterator still gives the generator of chat c: the value the
\* exhausted groupby holds for this chat (CPython 2.7), or nothing (CPython 3.7
\* and later, where the iterator of a group left behind is dead)
RestOfGroupOf(r, c, keep) ==
  IF r.gb # 0 /\ r.batch[r.gb].chat = c /\ keep THEN <<r.gb>> ELSE <<>>

RestOfGroup(c, keep) == RestOfGroupOf(Primary, c, keep)

\* the generator of the chat of r.batch[i] after the Deferred it waits for fired
ResumeOf(r, i, ok, keep, oc, iv) ==
  IF ~ok THEN [st |-> AfterFireOf(r, iv), status |-> "failed", at |-> i]
  ELSE RunFrom(message_handlers, message_prehandlers, r.batch, AfterFireOf(r, iv),
               RestOfGroupOf(r, r.batch[i].chat, keep), 1,
               [j \in 1..Len(r.batch) |-> oc])

Resume(i, ok, keep, oc, iv) == ResumeOf(Primary, i, ok, keep, oc, iv)

\* the DeferredList of process_updates, and get_update when it has fired
Fired(i, r, ps) ==
  /\ inv' = r.st.inv
  /\ route' = r.st.route
  /\ calls' = r.st.calls
  /\ prelog' = r.st.prelog
  /\ pipes' = ps
  /\ message_subscribers' = r.st.subs
  /\ message_next_handlers' = r.st.nexts
  /\ IF pc = "dispatch" /\ Settled(r.st.inv, ps)
     THEN Finish(batch)
     ELSE UNCHANGED <<last_update_id, retry_update, running, pc, default_delay,
                      delay, last_poll, streak, base, recovered>>

FiredMessage(i, r) ==
  /\ Fired(i, r, [pipes EXCEPT ![batch[i].chat] = [status |-> r.status, at |-> r.at]])
  /\ gb' = IF gb # 0 /\ batch[gb].chat = batch[i].chat THEN 0 ELSE gb

FiredKind(i, iv) ==
  /\ Fired(i, [st |-> AfterFire(iv)], pipes)
  /\ UNCHANGED gb

\* A handler's Deferred fires, with a result (ok) or with a failure. For a
\* message the chat's generator goes on with what its group still gives.
FireDeferred(i, ok, keep, oc) ==
  /\ i \in DOMAIN inv
  /\ inv[i] = "pending"
  \* keep and oc are inputs only when the generator gets a message to go on with
  /\ keep => ok /\ gb # 0 /\ batch[gb].chat = batch[i].chat /\ batch[i].kind = "message"
  /\ oc # "value" => keep
  /\ IF batch[i].kind = "message"
     THEN FiredMessage(i, Resume(i, ok, keep, oc,
                                 [inv EXCEPT ![i] = IF ok THEN "ok" ELSE "err"]))
     ELSE FiredKind(i, [inv EXCEPT ![i] = IF ok THEN "ok" ELSE "err"])
  /\ UNCHANGED <<batch, offset>>
  /\ UNCHANGED <<reactor_vars, bot_vars, upstream_vars>>

\* reactor.run(): the update_bot calls queued by callWhenRunning are made, one
\* after the other in the same turn; each returns if the bot was stopped
\* and sends its getUpdates request otherwise
Queued == pc = "timer" \/ \E k \in DOMAIN others : others[k].pc = "timer"

ReactorStarts ==
  /\ ~reactor
  /\ reactor' = TRUE
  /\ pc' = IF pc # "timer" THEN pc ELSE IF running THEN "polling" ELSE "exited"
  /\ others' = [k \in DOMAIN others |->
                  IF others[k].pc # "timer" THEN others[k]
                  ELSE [others[k] EXCEPT !.pc = IF running THEN "polling" ELSE "none"]]
  /\ IF Queued /\ running
     THEN /\ offset' = RequestOffset(last_update_id)
          /\ queue' = Confirmed(queue, RequestOffset(last_update_id))
     ELSE UNCHANGED <<offset, queue>>
  /\ UNCHANGED <<last_update_id, retry_update, running, default_delay, delay,
                 message_subscribers, message_next_handlers, supply, faults,
                 last_poll, streak, base, recovered>>
  /\ UNCHANGED <<bot_vars, batch_vars>>

-----------------------------------------------------------------------------
(* start_update called again while an update_bot of an earlier call is       *)
(* scheduled or in flight: every call makes one more update_bot closure,     *)
(* with its own default_delay, and all of them share the fields of the bot.  *)
(* The batch of such a further closure is followed through handlers that     *)
(* return at once.                                                           *)

FreeSlots == {k \in DOMAIN others : others[k].pc = "none"}

\* start_update(default_delay), the closure kept in slot k
StartedAgain(d, k) ==
  /\ others' = [others EXCEPT ![k] = [pc |-> IF reactor THEN "polling" ELSE "timer",
                                        default_delay |-> d, d |-> NoDispatch]]
  /\ queue' = IF reactor THEN Confirmed(queue, RequestOffset(last_update_id))
              ELSE queue

StartUpdateAgain(d) ==
  /\ pc \notin {"idle", "exited"}
  /\ FreeSlots # {}
  /\ running' = TRUE
  /\ StartedAgain(d, Smallest(FreeSlots))
  /\ UNCHANGED <<last_update_id, retry_update, pc, default_delay, delay,
                 message_subscribers, message_next_handlers, supply, faults,
                 reactor>>
  /\ UNCHANGED <<bot_vars, batch_vars, obs_vars>>

\* the update_bot of slot k is called by the running reactor: lines 117-122
OtherTimerFires(k) ==
  /\ reactor
  /\ others[k].pc = "timer"
  /\ IF running
     THEN /\ others' = [others EXCEPT ![k].pc = "polling", ![k].d = NoDispatch]
          /\ queue' = Confirmed(queue, RequestOffset(last_update_id))
     ELSE /\ others' = [others EXCEPT ![k].pc = "none", ![k].d = NoDispatch]
          /\ UNCHANGED queue
  /\ UNCHANGED <<last_update_id, retry_update, running, pc, default_delay,
                 delay, message_subscribers, message_next_handlers, supply,
                 faults, reactor>>
  /\ UNCHANGED <<bot_vars, batch_vars, obs_vars>>

\* the request of the update_bot of slot k fails: lines 125-128
OtherPollFail(k) ==
  /\ others[k].pc = "polling"
  /\ faults > 0
  /\ faults' = faults - 1
  /\ retry_update' = RetryAfterFailure(retry_update)
  /\ delay' = retry_update'         \* reactor.callLater(self.retry_update, ...)
  /\ others' = [others EXCEPT ![k].pc = "timer"]
  /\ UNCHANGED <<last_update_id, running, pc, default_delay,
                 message_subscribers, message_next_handlers, queue, supply,
                 reactor>>
  /\ UNCHANGED <<bot_vars, batch_vars, obs_vars>>

\* the batch in flight after the launch d = [st, pipes, gb] of the batch b
DispatchOf(b, d) ==
  [batch |-> b, inv |-> d.st.inv, route |-> d.st.route, calls |-> d.st.calls,
   prelog |-> d.st.prelog, pipes |-> d.pipes, gb |-> d.gb]

\* get_update of the update_bot of slot k returns (line 178) and update_bot goes
\* on (lines 124, 128), leaving the batch in flight r
OtherFinish(k, r) ==
  /\ last_update_id' = CursorAfterBatch(last_update_id, r.batch)
  /\ retry_update' = RetryAfterSuccess(retry_update, others[k].default_delay)
  /\ delay' = retry_update'
  /\ others' = [others EXCEPT ![k].pc = "timer", ![k].d = r]

\* lines 176-178 and 121-128 for the update_bot of slot k, once process_updates
\* has launched d
OtherAfterLaunch(k, b, raised, d) ==
  /\ message_subscribers' = d.st.subs
  /\ message_next_handlers' = d.st.nexts
  /\ IF raised
     THEN /\ faults > 0
          /\ faults' = faults - 1
          /\ retry_update' = RetryAfterFailure(retry_update)
          /\ delay' = retry_update'
          /\ others' = [others EXCEPT ![k].pc = "timer", ![k].d = DispatchOf(b, d)]
          /\ UNCHANGED last_update_id
     ELSE IF Settled(d.st.inv, d.pipes)
     THEN OtherFinish(k, DispatchOf(b, d)) /\ UNCHANGED faults
     ELSE /\ others' = [others EXCEPT ![k].pc = "dispatch",
                                      ![k].d = DispatchOf(b, d)]
          /\ UNCHANGED <<last_update_id, retry_update, delay, faults>>

OtherProcessUpdates(k, b, o, kinds) ==
  OtherAfterLaunch(k, b, kinds.raised,
    IF kinds.raised
    THEN [st |-> BeforeMessages(b, kinds.inv), pipes |-> NoPipes, gb |-> 0]
    ELSE process_messages(message_handlers, message_prehandlers, b,
                          BeforeMessages(b, kinds.inv), o))

OtherGetUpdate(k, b, o) ==
  /\ Len(b) <= MaxGroups
  /\ \A i \in DOMAIN o : i > Len(b) => o[i] = "value"
  /\ queue' = b
  /\ OtherProcessUpdates(k, b, o, LaunchKinds(handlers, b, o))

\* the request of the update_bot of slot k is answered: its get_update has its
\* own batch, and waits at line 176 for the handlers it launched
OtherPollOk(k, more, o) ==
  /\ others[k].pc = "polling"
  /\ Len(more) <= supply
  /\ supply' = supply - Len(more)
  /\ OtherGetUpdate(k, queue \o [n \in 1..Len(more) |-> WithId(more[n], NewId(n))], o)
  /\ UNCHANGED <<running, pc, default_delay, reactor>>
  /\ UNCHANGED <<bot_vars, batch_vars, obs_vars>>

\* the batch in flight r after a Deferred of it fired with the result res
Refired(r, res, ps, g) ==
  [batch |-> r.batch, inv |-> res.st.inv, route |-> res.st.route,
   calls |-> res.st.calls, prelog |-> res.st.prelog, pipes |-> ps, gb |-> g]

\* the DeferredList of the process_updates of slot k, and its get_update when
\* the list has fired
OtherFired(k, res, r) ==
  /\ message_subscribers' = res.st.subs
  /\ message_next_handlers' = res.st.nexts
  /\ IF others[k].pc = "dispatch" /\ Settled(r.inv, r.pipes)
     THEN OtherFinish(k, r)
     ELSE /\ others' = [others EXCEPT ![k].d = r]
          /\ UNCHANGED <<last_update_id, retry_update, delay>>

OtherFiredMessage(k, r, i, res) ==
  OtherFired(k, res,
    Refired(r, res,
            [r.pipes EXCEPT ![r.batch[i].chat] = [status |-> res.status, at |-> res.at]],
            IF r.gb # 0 /\ r.batch[r.gb].chat = r.batch[i].chat THEN 0 ELSE r.gb))

OtherFiredKind(k, r, res) == OtherFired(k, res, Refired(r, res, r.pipes, r.gb))

OtherFire(k, r, i, ok, keep, oc) ==
  /\ i \in DOMAIN r.inv
  /\ r.inv[i] = "pending"
  /\ keep => ok /\ r.gb # 0 /\ r.batch[r.gb].chat = r.batch[i].chat
              /\ r.batch[i].kind = "message"
  /\ oc # "value" => keep
  /\ IF r.batch[i].kind = "message"
     THEN OtherFiredMessage(k, r, i,
            ResumeOf(r, i, ok, keep, oc,
                     [r.inv EXCEPT ![i] = IF ok THEN "ok" ELSE "err"]))
     ELSE OtherFiredKind(k, r,
            [st |-> AfterFireOf(r, [r.inv EXCEPT ![i] = IF ok THEN "ok" ELSE "err"])])

\* a Deferred of a handler of the batch of slot k fires
OtherFireDeferred(k, i, ok, keep, oc) ==
  /\ OtherFire(k, others[k].d, i, ok, keep, oc)
  /\ UNCHANGED <<running, pc, default_delay, reactor>>
  /\ UNCHANGED <<bot_vars, upstream_vars, batch_vars, obs_vars>>

-----------------------------------------------------------------------------
(* The calls an application or a test makes on the bot itself *)

\* register_for_reply(message, callback)
RegisterForReply(message_id, callback) ==
  /\ message_subscribers' =
       CacheSet(message_subscribers, SubscribersMaxsize, message_id, callback)
  /\ message_subscribers' # message_subscribers
  /\ UNCHANGED message_next_handlers
  /\ UNCHANGED <<reactor_vars, bot_vars, loop_vars, upstream_vars, batch_vars, obs_vars>>

\* register_next_chat_handler(chat_id, callback)
RegisterNextChatHandler(chat_id, callback) ==
  /\ message_next_handlers' =
       CacheSet(message_next_handlers, NextHandlersMaxsize, chat_id, callback)
  /\ message_next_handlers' # message_next_handlers
  /\ UNCHANGED message_subscribers
  /\ UNCHANGED <<reactor_vars, bot_vars, loop_vars, upstream_vars, batch_vars, obs_vars>>

\* register_message_handler(fn, commands, regexp, func, content_types), and
\* the decorator message_handler, which calls it
RegisterMessageHandler(fn, commands, regexp, func, content_types) ==
  /\ Len(message_handlers) < MaxHandlers
  /\ message_handlers' =
       Append(message_handlers, FuncDict(fn, commands, regexp, func, content_types))
  /\ UNCHANGED <<message_prehandlers, handlers, message_subscribers,
                 message_next_handlers, reactor, others>>
  /\ UNCHANGED <<loop_vars, upstream_vars, batch_vars, obs_vars>>

DirectBatch(msgs) == [n \in 1..Len(msgs) |-> WithId(msgs[n], n)]

\* process_messages(messages) called on a bot whose poll loop was not started,
\* as the repository's test does
ProcessMessagesCall(msgs, o) ==
  /\ pc = "idle"
  /\ batch = <<>>
  /\ \A i \in DOMAIN o : i > Len(msgs) => o[i] = "value"   \* no handler to choose for
  /\ Launched(DirectBatch(msgs),
       process_messages(message_handlers, message_prehandlers, DirectBatch(msgs),
                        BeforeMessages(DirectBatch(msgs),
                                       [i \in 1..Len(msgs) |-> "none"]), o))
  /\ UNCHANGED <<reactor_vars, bot_vars, loop_vars, upstream_vars, obs_vars>>

-----------------------------------------------------------------------------
(* Specifications *)

\* the answers to a getUpdates request (the new updates) and the outcomes of
\* the handlers, and the message lists of a process_messages call, of each
\* model
LoopAnswers == SeqsUpTo(LoopShapes, MaxBatch)
LoopOutcomes == [1..MaxBatch -> Outcomes]
BackoffAnswers == SeqsUpTo(KindShapes, MaxPolled)
BackoffOutcomes == [1..MaxPolled -> Outcomes]
KindAnswers == SeqsUpTo(KindShapes, MaxKinds)
KindOutcomes == [1..MaxKinds -> Outcomes]
GroupAnswers == SeqsUpTo(GroupShapes, MaxGroups)
GroupOutcomes == [1..MaxGroups -> Outcomes \ {"raise"}]
DirectCalls == SeqsUpTo(DirectShapes, MaxDirect)
DirectOutcomes == [1..MaxDirect -> {"value", "deferred"}]
MatchCalls == SeqsUpTo(MatchShapes, MaxMatched)

InitBot ==
  /\ retry_update = InitialRetry
  /\ running = FALSE
  /\ message_subscribers = <<>>
  /\ message_next_handlers = <<>>
  /\ pc = "idle"
  /\ reactor = FALSE
  /\ others = NoOthers
  /\ default_delay = 0
  /\ delay = 0
  /\ queue = <<>>
  /\ batch = <<>> /\ inv = <<>> /\ route = <<>> /\ calls = <<>>
  /\ prelog = <<>> /\ pipes = NoPipes /\ gb = 0
  /\ last_poll = "none" /\ offset = 0 /\ streak = 0 /\ base = 0 /\ recovered = 0

\* The poll loop over batches of every kind of update.
Init ==
  /\ last_update_id = InitialCursor
  /\ message_handlers = <<CatchAll>>
  /\ message_prehandlers = <<"audit">>
  /\ handlers = SomeKindHandlers
  /\ supply = MaxBatch
  /\ faults = MaxFaults
  /\ InitBot

Next ==
  \/ ReactorStarts
  \/ StartUpdate(0)
  \/ TimerFires
  \/ PollFail
  \/ /\ pc = "polling"
     /\ \E more \in LoopAnswers, o \in LoopOutcomes : PollOk(more, o)
  \/ \E i \in 1..MaxBatch, ok \in BOOLEAN, keep \in BOOLEAN, oc \in Outcomes :
       FireDeferred(i, ok, keep, oc)

Spec == Init /\ [][Next]_vars

\* The poll loop under repeated failures of the poll call, over batches of
\* updates that are not messages.
InitBackoff ==
  /\ last_update_id \in {InitialCursor, SkipCursor}
  /\ message_handlers = <<CatchAll>>
  /\ message_prehandlers = <<"audit">>
  /\ handlers = SomeKindHandlers
  /\ supply = MaxPolled
  /\ faults = MaxFailures
  /\ InitBot

NextBackoff ==
  \/ ReactorStarts
  \/ \E d \in Delays : StartUpdate(d)
  \/ StopUpdate
  \/ RegisterNextChatHandler(1, "on_next")
  \/ TimerFires
  \/ PollFail
  \/ /\ pc = "polling"
     /\ \E more \in BackoffAnswers, o \in BackoffOutcomes : PollOk(more, o)
  \/ \E i \in 1..MaxPolled, ok \in BOOLEAN : FireDeferred(i, ok, FALSE, "value")

SpecBackoff == InitBackoff /\ [][NextBackoff]_vars

\* The poll loop with the reactor's guarantee that a call it was handed with
\* callWhenRunning or callLater is made. A few failures are enough here.
InitLive ==
  /\ last_update_id = InitialCursor
  /\ message_handlers = <<CatchAll>>
  /\ message_prehandlers = <<"audit">>
  /\ handlers = SomeKindHandlers
  /\ supply = MaxPolled
  /\ faults = MaxFaults
  /\ InitBot

SpecLive == InitLive /\ [][NextBackoff]_vars /\ WF_vars(TimerFires)

\* The poll loop when start_update is called again before the loop has ended.
NextLoops ==
  \/ NextBackoff
  \/ \E d \in Delays : StartUpdateAgain(d)
  \/ \E k \in 1..(MaxLoops - 1) : OtherTimerFires(k)
  \/ \E k \in 1..(MaxLoops - 1) : OtherPollFail(k)
  \/ \E k \in 1..(MaxLoops - 1) :
       /\ others[k].pc = "polling"
       /\ \E more \in BackoffAnswers, o \in BackoffOutcomes : OtherPollOk(k, more, o)
  \/ \E k \in 1..(MaxLoops - 1), i \in 1..MaxPolled, ok \in BOOLEAN :
       OtherFireDeferred(k, i, ok, FALSE, "value")

SpecLoops == InitLive /\ [][NextLoops]_vars

\* The poll loop over batches of several updates that are not messages, of
\* kinds with a handler, without one, and unknown to get_update.
InitKinds ==
  /\ last_update_id = InitialCursor
  /\ message_handlers = <<CatchAll>>
  /\ message_prehandlers = <<"audit">>
  /\ handlers = SomeKindHandlers
  /\ supply = MaxKinds
  /\ faults = MaxFaults
  /\ InitBot

NextKinds ==
  \/ ReactorStarts
  \/ StartUpdate(0)
  \/ TimerFires
  \/ PollFail
  \/ /\ pc = "polling"
     /\ \E more \in KindAnswers, o \in KindOutcomes : PollOk(more, o)
  \/ \E i \in 1..MaxKinds, ok \in BOOLEAN : FireDeferred(i, ok, FALSE, "value")

SpecKinds == InitKinds /\ [][NextKinds]_vars

\* The polling loop over answers that hold events of two kinds with a handler
\* and messages of two chats, every handler returning a value or a Deferred
\* that fires later.
InitGroups ==
  /\ last_update_id = InitialCursor
  /\ message_handlers = <<CatchAll>>
  /\ message_prehandlers = <<"audit">>
  /\ handlers = SomeKindHandlers
  /\ supply = MaxGroups
  /\ faults = 0
  /\ InitBot

NextGroups ==
  \/ ReactorStarts
  \/ StartUpdate(0)
  \/ TimerFires
  \/ /\ pc = "polling"
     /\ \E more \in GroupAnswers, o \in GroupOutcomes : PollOk(more, o)
  \/ \E i \in 1..MaxGroups, ok \in BOOLEAN, keep \in BOOLEAN,
        oc \in Outcomes \ {"raise"} :
       FireDeferred(i, ok, keep, oc)

SpecGroups == InitGroups /\ [][NextGroups]_vars

\* process_messages called on a bot with handlers registered, reply
\* subscriptions and next-step handlers coming and going.
InitDirect ==
  /\ last_update_id = InitialCursor
  /\ message_handlers \in {<<>>, <<OnStart, CatchAll>>}
  /\ message_prehandlers = <<"audit">>
  /\ handlers = SomeKindHandlers
  /\ supply = 0
  /\ faults = 0
  /\ InitBot

SyncOutcomes(n) == [i \in 1..n |-> "value"]

NextDirect ==
  \/ RegisterForReply(7, "on_reply")
  \/ RegisterNextChatHandler(1, "on_next")
  \/ /\ batch = <<>>
     /\ \E msgs \in DirectCalls, o \in DirectOutcomes : ProcessMessagesCall(msgs, o)
  \/ ProcessMessagesCall(Example, SyncOutcomes(Len(Example)))
  \/ \E i \in 1..MaxDirect, ok \in BOOLEAN, keep \in BOOLEAN, oc \in Outcomes :
       FireDeferred(i, ok, keep, oc)

SpecDirect == InitDirect /\ [][NextDirect]_vars

\* process_messages called with synchronous handlers on a bot with any short
\* list of registered message handlers, over texts and content types.
InitMatch ==
  /\ last_update_id = InitialCursor
  /\ message_handlers = <<>>
  /\ message_prehandlers = <<"audit">>
  /\ handlers = SomeKindHandlers
  /\ supply = 0
  /\ faults = 0
  /\ InitBot

NextMatch ==
  \/ \E a \in MatchRegistrations :
       RegisterMessageHandler(a.fn, a.commands, a.regexp, a.func, a.content_types)
  \/ RegisterNextChatHandler(1, "on_next")
  \/ /\ batch = <<>>
     /\ \E msgs \in MatchCalls : ProcessMessagesCall(msgs, SyncOutcomes(Len(msgs)))

SpecMatch == InitMatch /\ [][NextMatch]_vars

\* the keys of the entries registered before the run: FirstKey + 1 and up
FirstKey == 100

\* a cache after n registrations of callbacks under n different keys, the
\* oldest first
Filled(n) == [i \in 1..n |-> [key |-> FirstKey + i, value |-> "on_old"]]

\* the messages of a call in the model of the full caches: of a chat with and
\* without an old next-step handler, replying to nothing, to the message of a
\* new subscription and to the messages of the two oldest ones
CacheShapes ==
  {Msg(c, r, "text", Command) :
     c \in {1, FirstKey + 1}, r \in {NoReply, 7, FirstKey + 1, FirstKey + 2}}

\* A bot whose two caches are full: register_for_reply has been called for
\* SubscribersMaxsize messages and register_next_chat_handler for
\* NextHandlersMaxsize chats.
InitCache ==
  /\ last_update_id = InitialCursor
  /\ message_handlers = <<CatchAll>>
  /\ message_prehandlers = <<"audit">>
  /\ handlers = SomeKindHandlers
  /\ supply = 0
  /\ faults = 0
  /\ retry_update = InitialRetry
  /\ running = FALSE
  /\ message_subscribers = Filled(SubscribersMaxsize)
  /\ message_next_handlers = Filled(NextHandlersMaxsize)
  /\ pc = "idle"
  /\ reactor = FALSE
  /\ others = NoOthers
  /\ default_delay = 0
  /\ delay = 0
  /\ queue = <<>>
  /\ batch = <<>> /\ inv = <<>> /\ route = <<>> /\ calls = <<>>
  /\ prelog = <<>> /\ pipes = NoPipes /\ gb = 0
  /\ last_poll = "none" /\ offset = 0 /\ streak = 0 /\ base = 0 /\ recovered = 0

NextCache ==
  \/ \E m \in {7, FirstKey + 1} : RegisterForReply(m, "on_reply")
  \/ \E c \in {1, FirstKey + 1} : RegisterNextChatHandler(c, "on_next")
  \/ \E msg \in CacheShapes : ProcessMessagesCall(<<msg>>, SyncOutcomes(1))

SpecCache == InitCache /\ [][NextCache]_vars

-----------------------------------------------------------------------------
(* Properties of the batch dispatch, checked under Spec *)

SameChat(i, j) ==
  /\ batch[i].kind = "message" /\ batch[j].kind = "message"
  /\ batch[i].chat = batch[j].chat

\* the update has a handler to be invoked with
HasHandler(u) ==
  \/ u.kind = "message" /\ find_command_handler_function(message_handlers, u) # None
  \/ u.kind \in DOMAIN handlers /\ handlers[u.kind] # None

\* the get_update call that polled the batch has ended
PollEnded == pc = "timer" /\ batch # <<>>

\* C1: inside one batch the handlers of one chat's messages begin in arrival
\* order and never overlap: when process_message has run for two messages of
\* a chat, the one that ran first arrived first and its handler has finished
\* (it returned, or its Deferred has fired).
C1_InOrderNoOverlap ==
  \A p, q \in 1..Len(calls) :
    (p < q /\ SameChat(calls[p], calls[q])) =>
      /\ calls[p] < calls[q]
      /\ inv[calls[p]] # "pending"

\* a message of a chat was handled after the Deferred of an earlier one fired:
\* the generator was resumed, as the message between the two was passed over
C1_Witness ==
  \E p, q \in 1..Len(calls) :
    /\ p < q /\ SameChat(calls[p], calls[q])
    /\ inv[calls[p]] = "ok"
    /\ \E j \in DOMAIN batch :
         calls[p] < j /\ j < calls[q] /\ SameChat(calls[p], j) /\ inv[j] = "none"

\* C3: every chat's pipeline processes all of its messages: when the batch is
\* complete and no handler failed, process_message has run exactly once for
\* every message of the batch.
C3_EveryMessageHandled ==
  (/\ PollEnded /\ last_poll = "ok"
   /\ \A i \in DOMAIN inv : inv[i] \notin {"raise", "err"})
  => \A i \in DOMAIN batch :
       batch[i].kind = "message" =>
         Cardinality({p \in 1..Len(calls) : calls[p] = i}) = 1

\* C4: get_update does not change the cursor while an invocation launched for
\* the polled batch is pending: in every step that changes last_update_id, no
\* invocation is left pending and no chat's pipeline is left waiting.
C4_CursorAfterSettled ==
  [][last_update_id' # last_update_id =>
       /\ \A i \in DOMAIN inv' : inv'[i] # "pending"
       /\ \A c \in DOMAIN pipes' : pipes'[c].status # "waiting"]_vars

\* the cursor was advanced to the batch's largest id once a Deferred of the
\* batch had fired with a failure
C4_Witness ==
  /\ PollEnded /\ last_poll = "ok"
  /\ last_update_id = max_update_id(batch)
  /\ \E i \in DOMAIN inv : inv[i] = "err"

\* C5: the cursor never decreases: no step leaves last_update_id lower than
\* it was.
C5_CursorMonotonic == [][last_update_id' >= last_update_id]_vars

\* C6: a handler error is not a failure of the poll step: when the get_update
\* call of a batch has ended and every invocation has settled, the cursor is
\* at the batch's largest id, and the retry delay and the delay of the next
\* poll are the default.
C6_HandlerErrorIsNoPollFailure ==
  (PollEnded /\ \A i \in DOMAIN inv : inv[i] # "pending") =>
    /\ last_update_id = max_update_id(batch)
    /\ retry_update = default_delay
    /\ delay = default_delay

\* C7: a handler's failure is isolated: when the get_update call of a batch in
\* which a handler failed has ended, every update of the batch that has a
\* handler was handed to it.
C7_ErrorsIsolated ==
  (PollEnded /\ \E i \in DOMAIN inv : inv[i] \in {"raise", "err"}) =>
    \A i \in DOMAIN batch : HasHandler(batch[i]) => inv[i] # "none"

-----------------------------------------------------------------------------
(* Properties of the retry delay, checked under SpecBackoff *)

\* the delays the specification lists for consecutive failures: 0, 3, 6, ...
ListedDelay(n) == Min(RetryStep * (n - 1), RetryCeiling)

\* C8: from retry delay 0, the poll attempt after the n-th consecutive
\* transport failure is scheduled after the n-th delay of 0, 3, 6, 9, 12, 15,
\* 18, 20, 20, ...
C8_BackoffSequence ==
  (pc = "timer" /\ last_poll = "transport_error" /\ base = 0) =>
    delay = ListedDelay(streak)

\* C9: a successful poll whose batch is fully dispatched resets the retry
\* delay to the default given to start_update, and the next poll is scheduled
\* after that delay, whatever failures came before.
C9_SuccessResets ==
  (pc = "timer" /\ last_poll = "ok") =>
    /\ retry_update = default_delay
    /\ delay = default_delay

\* a poll succeeded after three failures in a row, with a default that is not 0
C9_Witness ==
  /\ pc = "timer" /\ last_poll = "ok"
  /\ recovered >= 3
  /\ default_delay # 0

-----------------------------------------------------------------------------
(* Properties of process_messages and process_message, checked under         *)
(* SpecDirect                                                               *)

\* the call sequence the repository's test expects of its ten messages
ExampleCalls == <<1, 5, 8, 9, 2, 3, 6, 4, 7, 10>>

\* calls visits every message of the batch once, chats in ascending id and,
\* inside a chat, messages in arrival order
StablePartition(b, cs) ==
  /\ Len(cs) = Len(b)
  /\ \A i \in DOMAIN b : \E p \in DOMAIN cs : cs[p] = i
  /\ \A p, q \in DOMAIN cs :
       p < q => \/ b[cs[p]].chat < b[cs[q]].chat
                \/ b[cs[p]].chat = b[cs[q]].chat /\ cs[p] < cs[q]

\* C2: when every process_message call of a process_messages call completes
\* synchronously, process_message runs once for each message, chat groups in
\* ascending chat id and each group in arrival order; chat ids
\* [1,2,2,3,1,2,3,1,1,3] give msg0,msg4,msg7,msg8,msg1,msg2,msg5,msg3,msg6,msg9.
C2_StablePartition ==
  [][(batch = <<>> /\ batch' # <<>>
        /\ \A i \in DOMAIN inv' : inv'[i] \notin {"pending", "raise"}) =>
       /\ StablePartition(batch', calls')
       /\ batch' = DirectBatch(Example) => calls' = ExampleCalls]_vars

\* the ten messages of the test were processed, in the order the test expects
C2_Witness ==
  /\ batch = DirectBatch(Example)
  /\ calls = ExampleCalls

\* the handler a cache holds for key k
CacheValue(c, k) == c[CacheGet(c, k)].value

HasSubscription(i) ==
  /\ batch[i].reply_to # NoReply
  /\ batch[i].reply_to \in CacheKeys(route[i].subs)

HasNextHandler(i) == batch[i].chat \in CacheKeys(route[i].nexts)

\* C10: process_message resolves in the order reply subscription, next-step
\* handler, static handlers and stops at the first match: at most one handler
\* is invoked; a reply subscription of the message is the one invoked when
\* there is one, and the chat's next-step handler is left in place; else the
\* chat's next-step handler is the one invoked when there is one; the static
\* handlers are used only when there is neither.
C10_Precedence ==
  \A p \in 1..Len(calls) :
    LET i == calls[p] IN
      /\ Len(route[i].invoked) <= 1
      /\ HasSubscription(i) =>
           /\ route[i].invoked =
                <<[via |-> "subscriber",
                   fn |-> CacheValue(route[i].subs, batch[i].reply_to)]>>
           /\ route[i].nexts_left = route[i].nexts
      /\ (~HasSubscription(i) /\ HasNextHandler(i)) =>
           route[i].invoked =
             <<[via |-> "next", fn |-> CacheValue(route[i].nexts, batch[i].chat)]>>
      /\ (~HasSubscription(i) /\ ~HasNextHandler(i)) =>
           \A k \in DOMAIN route[i].invoked :
             /\ route[i].invoked[k].via = "static"
             /\ route[i].invoked[k].fn =
                  find_command_handler_function(route[i].mhs, batch[i])

\* a message with a reply subscription, a next-step handler of its chat and a
\* matching static handler was resolved by the subscription
C10_Witness ==
  \E i \in DOMAIN batch :
    /\ i \in Range(calls)
    /\ HasSubscription(i) /\ HasNextHandler(i)
    /\ find_command_handler_function(route[i].mhs, batch[i]) # None
    /\ route[i].invoked # <<>>
    /\ route[i].invoked[1].via = "subscriber"

\* the static resolution of the message at batch position i
StaticOf(i) ==
  IF find_command_handler_function(route[i].mhs, batch[i]) = None THEN <<>>
  ELSE <<[via |-> "static",
          fn |-> find_command_handler_function(route[i].mhs, batch[i])]>>

\* nothing was registered between the p-th and the q-th process_message call
\* of the batch: each call found the caches as the call before it left them
\* and the same list of handlers
Undisturbed(p, q) ==
  \A m \in p..(q - 1) :
    /\ route[calls[m + 1]].subs = route[calls[m]].subs_left
    /\ route[calls[m + 1]].nexts = route[calls[m]].nexts_left
    /\ route[calls[m + 1]].mhs = route[calls[m]].mhs

ResolvedVia(i, via) == route[i].invoked # <<>> /\ route[i].invoked[1].via = via

\* C11: a reply subscription is consumed at most once: of two messages that
\* reply to the same message id, with no registration between them, when the
\* first processed invoked the subscription's callback the other does not,
\* and with no next-step handler for its chat it gets the static resolution.
C11_SubscriptionOnce ==
  \A p, q \in 1..Len(calls) :
    (/\ p < q
     /\ Undisturbed(p, q)
     /\ batch[calls[p]].reply_to # NoReply
     /\ batch[calls[p]].reply_to = batch[calls[q]].reply_to
     /\ ResolvedVia(calls[p], "subscriber")) =>
      /\ ~ResolvedVia(calls[q], "subscriber")
      /\ ~HasNextHandler(calls[q]) => route[calls[q]].invoked = StaticOf(calls[q])

\* two messages replied to the subscribed message: the first was resolved by
\* the subscription, the second by a static handler
C11_Witness ==
  \E p, q \in 1..Len(calls) :
    /\ p < q
    /\ Undisturbed(p, q)
    /\ batch[calls[p]].reply_to # NoReply
    /\ batch[calls[p]].reply_to = batch[calls[q]].reply_to
    /\ ResolvedVia(calls[p], "subscriber")
    /\ ResolvedVia(calls[q], "static")

-----------------------------------------------------------------------------
(* Properties of the next-step cache and of the static handlers, checked     *)
(* under SpecMatch                                                          *)

\* C12: a next-step handler is consumed at most once: a message of a chat
\* that has one (and no reply subscription) invokes it whatever its content
\* type and text, and the chat's message processed right after, with no new
\* registration, finds none and gets the static resolution.
C12_NextHandlerOnce ==
  \A p \in 1..Len(calls) :
    (~HasSubscription(calls[p]) /\ HasNextHandler(calls[p])) =>
      /\ ResolvedVia(calls[p], "next")
      /\ \A q \in 1..Len(calls) :
           (q = p + 1 /\ SameChat(calls[p], calls[q]) /\ Undisturbed(p, q)) =>
             /\ ~HasNextHandler(calls[q])
             /\ route[calls[q]].invoked = StaticOf(calls[q])

\* a photo consumed the chat's next-step handler and the chat's next message
\* was resolved by a static handler
C12_Witness ==
  \E p, q \in 1..Len(calls) :
    /\ q = p + 1 /\ SameChat(calls[p], calls[q]) /\ Undisturbed(p, q)
    /\ batch[calls[p]].content_type = "photo"
    /\ ResolvedVia(calls[p], "next")
    /\ ResolvedVia(calls[q], "static")

\* the text message m gives the handler h, which declares commands, no
\* command of its list: no command token at all, or one that h does not list
NoDeclaredCommand(h, m) ==
  /\ h.has_commands /\ "text" \in h.content_types /\ m.content_type = "text"
  /\ \/ ~Truthy(extract_command(m.text))
     \/ ~TestCommands(h, extract_command(m.text))

\* C13: a static handler that declares commands does not match a text message
\* that has no command token or whose command it does not list: the handler
\* invoked for such a message is never that handler (its regexp and its
\* predicate are not consulted).
C13_CommandsDecide ==
  \A p \in 1..Len(calls) : \A k \in 1..Len(route[calls[p]].mhs) :
    NoDeclaredCommand(route[calls[p]].mhs[k], batch[calls[p]]) =>
      ~(/\ ResolvedVia(calls[p], "static")
        /\ route[calls[p]].invoked[1].fn = route[calls[p]].mhs[k].function)

\* the command of each text of the model, written out by hand
ExpectedCommand(text) ==
  CASE text \in {TStart, TStartBot, TUpper} ->
         [is_none |-> FALSE, value |-> <<"s", "t", "a", "r", "t">>]
    [] text = TStarted ->
         [is_none |-> FALSE, value |-> <<"s", "t", "a", "r", "t", "e", "d">>]
    [] text = TAccented ->
         [is_none |-> FALSE, value |-> <<"\\u00e9", "t", "\\u00e9">>]
    [] text = TSlash -> [is_none |-> FALSE, value |-> <<>>]
    [] OTHER -> [is_none |-> TRUE, value |-> <<>>]

\* C14: the command of a text is its first token without the leading '/' and
\* without an '@botname' suffix, lower-cased, and there is one only when the
\* text starts with '/'; a handler with commands ['start'] matches "/start"
\* and "/start@mybot extra" (and "/START") and matches neither "start" nor
\* "/started" nor any other text of the model.
C14_CommandMatching ==
  \A p \in 1..Len(calls) :
    batch[calls[p]].content_type = "text" =>
      /\ extract_command(batch[calls[p]].text) = ExpectedCommand(batch[calls[p]].text)
      /\ (route[calls[p]].mhs = <<OnStart>> /\ ~HasNextHandler(calls[p])) =>
           (ResolvedVia(calls[p], "static")
              <=> batch[calls[p]].text \in {TStart, TStartBot, TUpper})

\* with ['start'] as the only handler, "/start@mybot extra" was handled by it
\* and "/started" by nothing
C14_Witness ==
  \E p, q \in 1..Len(calls) :
       /\ route[calls[p]].mhs = <<OnStart>> /\ route[calls[q]].mhs = <<OnStart>>
       /\ batch[calls[p]].text = TStartBot /\ ResolvedVia(calls[p], "static")
       /\ batch[calls[q]].text = TStarted /\ route[calls[q]].invoked = <<>>
       /\ ~HasNextHandler(calls[q])

\* the handlers of the list that match the message at batch position i
MatchingAt(i) ==
  {k \in 1..Len(route[i].mhs) : test_message_handler(route[i].mhs[k], batch[i])}

\* C15: the static handlers are scanned in registration order and the first
\* that matches wins: a message resolved by the static handlers invoked the
\* function of the earliest registered handler that matches it, a handler
\* that matches has the message's content type in its content types, and a
\* message left to the static handlers that invoked nothing matches none.
C15_FirstRegisteredWins ==
  \A p \in 1..Len(calls) :
    LET i == calls[p] IN
      (~HasSubscription(i) /\ ~HasNextHandler(i)) =>
        /\ \A k \in MatchingAt(i) :
             batch[i].content_type \in route[i].mhs[k].content_types
        /\ IF MatchingAt(i) = {} THEN route[i].invoked = <<>>
           ELSE \E k \in MatchingAt(i) :
                  /\ \A j \in MatchingAt(i) : k <= j
                  /\ route[i].invoked =
                       <<[via |-> "static", fn |-> route[i].mhs[k].function]>>

\* two different registered handlers match a message and the one registered
\* first was invoked
C15_Witness ==
  \E i \in DOMAIN batch :
    /\ i \in Range(calls)
    /\ 1 \in MatchingAt(i) /\ 2 \in MatchingAt(i)
    /\ route[i].mhs[1].function # route[i].mhs[2].function
    /\ route[i].invoked = <<[via |-> "static", fn |-> route[i].mhs[1].function]>>

-----------------------------------------------------------------------------
(* Properties of stop_update and of a failing poll call, checked under       *)
(* SpecBackoff                                                              *)

\* C16: stop_update only prevents further poll iterations: the call itself
\* changes nothing of the loop's position, the batch or the cursor; while the
\* bot stays stopped no new poll request is sent; and a batch whose handlers
\* are in flight is left only when they have all settled, with the cursor
\* advanced to the batch's largest id, stopped or not.
C16_StopOnlyEndsPolling ==
  [][/\ (running /\ ~running') =>
          UNCHANGED <<pc, last_update_id, batch, inv, pipes, calls>>
     /\ (~running /\ ~running') => (pc' = "polling" => pc = "polling")
     /\ (pc = "dispatch" /\ pc' # "dispatch") =>
          /\ \A i \in DOMAIN inv' : inv'[i] # "pending"
          /\ last_update_id' = max_update_id(batch)]_vars

\* the bot is stopped, and the batch whose handler's Deferred fired has
\* advanced the cursor
C16_Witness ==
  /\ ~running
  /\ PollEnded /\ last_poll = "ok"
  /\ \E i \in DOMAIN inv : inv[i] = "err"
  /\ last_update_id = max_update_id(batch)

\* C17: a transport error of the poll call changes no dispatch state and is
\* recovered by the loop: the step in which the call fails leaves the cursor,
\* both caches and the record of invocations and prehandler calls as they
\* were, schedules update_bot again after the increased retry delay, and the
\* next request carries the offset of the failed one.
C17_TransportErrorFrame ==
  [][/\ streak' > streak =>
          /\ UNCHANGED <<last_update_id, message_subscribers,
                         message_next_handlers, inv, calls, prelog>>
          /\ pc' = "timer"
          /\ retry_update' = Min(retry_update + RetryStep, RetryCeiling)
          /\ delay' = retry_update'
     /\ (last_poll = "transport_error" /\ pc = "timer" /\ pc' = "polling") =>
          offset' = offset]_vars

\* a poll call failed on a bot whose cursor had advanced and whose next-step
\* cache holds a handler, and the next request was sent
C17_Witness ==
  /\ last_poll = "transport_error" /\ pc = "polling"
  /\ last_update_id > InitialCursor
  /\ message_next_handlers # <<>>

-----------------------------------------------------------------------------
(* Progress of the poll loop, checked under SpecLive *)

\* a get_update call has ended whose batch had a handler that failed or an
\* update of a kind get_update does not know
EndedWithFailure ==
  /\ running
  /\ batch # <<>> /\ pc \notin {"polling", "dispatch"}
  /\ \/ \E i \in DOMAIN inv : inv[i] \in {"raise", "err"}
     \/ \E i \in DOMAIN batch : batch[i].kind = "unknown"

\* C18: a handler error or an unsupported update does not end the loop: after
\* such a batch, unless stop_update is called, another poll request is sent.
C18_LoopGoesOn == EndedWithFailure ~> (pc = "polling" \/ ~running)

\* the loop is polling again after a get_update that a handler's exception
\* made fail
C18_Witness == running /\ pc = "polling" /\ last_poll = "handler_raised"

-----------------------------------------------------------------------------
(* Properties of the prehandlers and of the kind groups, checked under Spec *)

\* how often prehandler k was notified of the message at batch position i
Notified(i, k) ==
  Cardinality({n \in 1..Len(prelog) : prelog[n] = <<i, message_prehandlers[k]>>})

\* C19: the prehandlers run exactly once, in registration order, for every
\* message of a batch: when the batch is complete and no handler failed,
\* every message of it was announced once to every prehandler, in
\* registration order.
C19_PrehandlersForEveryMessage ==
  (/\ PollEnded /\ last_poll = "ok"
   /\ \A i \in DOMAIN inv : inv[i] \notin {"raise", "err"}) =>
    /\ \A i \in DOMAIN batch : \A k \in 1..Len(message_prehandlers) :
         batch[i].kind = "message" => Notified(i, k) = 1
    /\ \A n, m \in 1..Len(prelog) :
         (n < m /\ prelog[n][1] = prelog[m][1]) =>
           \E k, l \in 1..Len(message_prehandlers) :
             /\ k < l
             /\ prelog[n][2] = message_prehandlers[k]
             /\ prelog[m][2] = message_prehandlers[l]

\* C20: a registered kind handler is invoked exactly once for every event of
\* its group, and a kind without a handler is never invoked: once
\* process_updates has run for a batch, every update of a kind that has a
\* handler has an invocation and every update of a kind that has none has not.
C20_KindHandlerPerEvent ==
  batch # <<>> =>
    \A i \in DOMAIN batch :
      batch[i].kind \in DOMAIN handlers =>
        (inv[i] # "none" <=> handlers[batch[i].kind] # None)

\* the first message of its chat in the batch
FirstOfChat(i) ==
  /\ batch[i].kind = "message"
  /\ \A j \in 1..(i - 1) : ~SameChat(i, j)

\* C21: the pipelines of different chats run concurrently with each other and
\* with the kind groups: once process_updates has launched a batch without a
\* kind handler raising, the first message of every chat has been given to
\* process_message and every event of a kind that has a handler has had it
\* invoked, whichever handlers of other chats or kinds are still pending.
C21_LaunchedTogether ==
  (batch # <<>> /\ last_poll \in {"pending", "ok"}) =>
    /\ \A i \in DOMAIN batch : FirstOfChat(i) => i \in Range(calls)
    /\ \A i \in DOMAIN batch :
         (batch[i].kind # "message" /\ HasHandler(batch[i])) => inv[i] # "none"

\* the handler of an inline query and the handler of a message of chat 1 are
\* pending while the handler of a callback query, a kind of a later group, has
\* been invoked and the first message of chat 2, later in the batch than the
\* message of chat 1, has been given to process_message
C21_Witness ==
  /\ pc = "dispatch"
  /\ \E i, j, k, l \in DOMAIN batch :
       /\ i < j
       /\ batch[i].kind = "message" /\ batch[i].chat = 1 /\ inv[i] = "pending"
       /\ batch[j].kind = "message" /\ batch[j].chat = 2 /\ j \in Range(calls)
       /\ batch[k].kind = "inline_query" /\ inv[k] = "pending"
       /\ batch[l].kind = "callback_query" /\ inv[l] # "none"

\* C22: after a successful poll whose batch has been fully processed the
\* cursor is the largest update id of the batch, the ids of updates of an
\* unknown kind included, and for such an update no kind handler, message
\* handler or prehandler has been invoked.
C22_CursorIsBatchMaximum ==
  (PollEnded /\ last_poll = "ok") =>
    /\ \A i \in DOMAIN batch : batch[i].update_id <= last_update_id
    /\ \E i \in DOMAIN batch : batch[i].update_id = last_update_id
    /\ \A i \in DOMAIN batch :
         batch[i].kind = "unknown" =>
           /\ inv[i] = "none"
           /\ i \notin Range(calls)
           /\ \A n \in DOMAIN prelog : prelog[n][1] # i

\* a batch of a handled inline query followed by an update of an unknown kind
\* has been processed and the cursor is the id of the unknown update
C22_Witness ==
  /\ PollEnded /\ last_poll = "ok"
  /\ Len(batch) = 2
  /\ batch[1].kind = "inline_query" /\ inv[1] = "ok"
  /\ batch[2].kind = "unknown"
  /\ batch[2].update_id > batch[1].update_id
  /\ last_update_id = batch[2].update_id

\* the cache c2 is the cache c after one registration: the registered entry
\* is the most recent one; it took the place of its own older entry, or, in a
\* full cache, of the least recently used entry, or of none
AfterRegistration(c, c2, maxsize) ==
  /\ c2 # <<>>
  /\ SubSeq(c2, 1, Len(c2) - 1) =
       IF c2[Len(c2)].key \in CacheKeys(c) THEN CacheDel(c, c2[Len(c2)].key)
       ELSE IF Len(c) = maxsize THEN Tail(c)
       ELSE c

\* no message of the batch b whose reply subscription is not in the cache
\* subs had a subscription callback invoked in the routes r
NoCallbackWithoutEntry(b, r, subs) ==
  \A i \in DOMAIN b :
    b[i].reply_to \notin CacheKeys(subs) =>
      (r[i].invoked = <<>> \/ r[i].invoked[1].via # "subscriber")

\* C23: the caches are bounded, with least-recently-used eviction: the
\* reply-subscription cache never holds more than 10000 entries and the
\* next-step cache never more than 1000; a registration makes its entry the
\* most recent one and, when the cache is full and the key is new, evicts
\* exactly the least recently registered or refreshed entry; a reply to a
\* message whose subscription was evicted invokes no subscription callback
\* and is resolved by the later steps.
C23_BoundedLru ==
  [][/\ Len(message_subscribers') <= SubscribersMaxsize
     /\ Len(message_next_handlers') <= NextHandlersMaxsize
     /\ (calls' = calls /\ message_subscribers' # message_subscribers) =>
          AfterRegistration(message_subscribers, message_subscribers',
                            SubscribersMaxsize)
     /\ (calls' = calls /\ message_next_handlers' # message_next_handlers) =>
          AfterRegistration(message_next_handlers, message_next_handlers',
                            NextHandlersMaxsize)
     /\ (batch = <<>> /\ batch' # <<>>) =>
          NoCallbackWithoutEntry(batch', route', message_subscribers)]_vars

\* the oldest subscription was refreshed, the registration of a new one then
\* evicted the second oldest, and a reply to that one got the static handler
\* while the full next-step cache has lost its oldest entry to a new chat
C23_Witness ==
  /\ Len(message_subscribers) = SubscribersMaxsize
  /\ Len(message_next_handlers) = NextHandlersMaxsize
  /\ {7, FirstKey + 1} \subseteq CacheKeys(message_subscribers)
  /\ FirstKey + 2 \notin CacheKeys(message_subscribers)
  /\ 1 \in CacheKeys(message_next_handlers)
  /\ FirstKey + 1 \notin CacheKeys(message_next_handlers)
  /\ Len(batch) = 1
  /\ batch[1].reply_to = FirstKey + 2 /\ batch[1].chat = FirstKey + 1
  /\ ResolvedVia(1, "static")

\* C24: start_update(default_delay) initializes the retry delay: from the call
\* of start_update until the loop's first poll has ended, retry_update is the
\* default delay given to the call, so that the first transport failure backs
\* off from it.
C24_RetryStartsAtDefault ==
  (pc \in {"timer", "polling"} /\ last_poll = "none") =>
    retry_update = default_delay

\* C25: there is a single poll loop: whatever the sequence of start_update
\* and stop_update calls, no two getUpdates requests or batch dispatches are
\* in progress at the same time.
C25_SinglePollLoop ==
  ~(/\ pc \in {"polling", "dispatch"}
    /\ \E k \in DOMAIN others : others[k].pc \in {"polling", "dispatch"})

\* the caches as the p-th process_message call of the batch left them
NextsAfter(p) == route[calls[p]].nexts_left

SubsAfter(p) == route[calls[p]].subs_left

\* the q-th call is the first call after the p-th for a message of the same
\* chat that a reply subscription did not resolve
NextUnsubscribed(p, q) ==
  /\ p < q
  /\ SameChat(calls[p], calls[q])
  /\ ~ResolvedVia(calls[q], "subscriber")
  /\ \A m \in (p + 1)..(q - 1) :
       SameChat(calls[p], calls[m]) => ResolvedVia(calls[m], "subscriber")

\* C26: a message resolved through a reply subscription leaves the next-step
\* cache as it was, and the next-step handler of its chat is invoked by the
\* chat's next message that no reply subscription resolves (when nothing is
\* registered in between); a message
\* resolved through a next-step handler leaves the reply subscriptions as
\* they were and invokes nothing but that handler.
C26_ResolutionFrame ==
  \A p \in 1..Len(calls) :
    /\ ResolvedVia(calls[p], "subscriber") =>
         /\ NextsAfter(p) = route[calls[p]].nexts
         /\ \A q \in 1..Len(calls) :
              (HasNextHandler(calls[p]) /\ NextUnsubscribed(p, q)
               /\ Undisturbed(p, q)) =>
                route[calls[q]].invoked =
                  <<[via |-> "next",
                     fn |-> CacheValue(route[calls[p]].nexts, batch[calls[p]].chat)]>>
    /\ ResolvedVia(calls[p], "next") =>
         /\ SubsAfter(p) = route[calls[p]].subs
         /\ Len(route[calls[p]].invoked) = 1

\* a reply subscription resolved a message of a chat that has a next-step
\* handler, and the chat's next message was resolved by that handler, which
\* is no longer in the cache
C26_Witness ==
  \E p, q \in 1..Len(calls) :
    /\ ResolvedVia(calls[p], "subscriber")
    /\ HasNextHandler(calls[p])
    /\ NextUnsubscribed(p, q)
    /\ Undisturbed(p, q)
    /\ ResolvedVia(calls[q], "next")
    /\ batch[calls[q]].chat \notin CacheKeys(NextsAfter(q))

\* C27: no update is dispatched twice: the getUpdates request that follows a
\* batch asks for ids above those of every update of the batch for which a
\* handler or a prehandler was invoked, also when a handler raised, so that
\* the upstream does not send such an update again.
C27_NoSecondDispatch ==
  [][(pc = "timer" /\ pc' = "polling") =>
       /\ \A i \in DOMAIN batch :
            inv[i] # "none" => batch[i].update_id < offset'
       /\ \A n \in DOMAIN prelog :
            batch[prelog[n][1]].update_id < offset']_vars

=============================================================================
